---- MODULE Spec2Model ----
(***************************************************************************)
(* Model of the AI code review action: the file selection engine of        *)
(* src/src/file-analyzer.js (FileAnalyzer) and the run() pipeline of       *)
(* src/src/index.js that feeds the selected files to the review engine.    *)
(* File names are TLA+ strings; the string helpers below compute what the  *)
(* JavaScript string and path functions compute, character by character.   *)
(***************************************************************************)
EXTENDS Integers, Sequences, FiniteSets, TLC

(***************************************************************************)
(* Bounds of the model.                                                    *)
(***************************************************************************)
\* longest list of changed files returned by getChangedFiles
MaxChangedFiles == 3
\* config.maxFiles ranges over 1..MaxFilesCap (the validator allows 1..100)
MaxFilesCap == 2
MaxPatchLines == 4
MaxReviews == 2

(***************************************************************************)
(* JavaScript string primitives.                                           *)
(***************************************************************************)
UpperChars == "ABCDEFGHIJKLMNOPQRSTUVWXYZ"
LowerChars == "abcdefghijklmnopqrstuvwxyz"

CharAt(s, i) == SubSeq(s, i, i)

\* the lower-case letter of each upper-case letter
LowerOf ==
  [c \in {CharAt(UpperChars, i) : i \in 1..Len(UpperChars)} |->
     CharAt(LowerChars, CHOOSE i \in 1..Len(UpperChars) : CharAt(UpperChars, i) = c)]

LowerChar(c) == IF c \in DOMAIN LowerOf THEN LowerOf[c] ELSE c

RECURSIVE toLowerCase(_)
toLowerCase(s) ==
  IF Len(s) = 0 THEN ""
  ELSE LowerChar(CharAt(s, 1)) \o toLowerCase(SubSeq(s, 2, Len(s)))

\* String.prototype.includes
includes(s, sub) ==
  \E i \in 1..(Len(s) - Len(sub) + 1) : SubSeq(s, i, i + Len(sub) - 1) = sub

\* String.prototype.startsWith / endsWith
startsWith(s, pre) == Len(pre) <= Len(s) /\ SubSeq(s, 1, Len(pre)) = pre
endsWith(s, suf) == Len(suf) <= Len(s) /\ SubSeq(s, Len(s) - Len(suf) + 1, Len(s)) = suf

\* 1-based index of the last occurrence of character c in s, 0 when absent
RECURSIVE lastIndexFrom(_, _, _)
lastIndexFrom(s, c, i) ==
  IF i = 0 THEN 0
  ELSE IF CharAt(s, i) = c THEN i
  ELSE lastIndexFrom(s, c, i - 1)

lastIndexOf(s, c) == lastIndexFrom(s, c, Len(s))

(***************************************************************************)
(* path.basename and path.extname (posix) for paths with no trailing '/'.  *)
(***************************************************************************)
basename(p) == SubSeq(p, lastIndexOf(p, "/") + 1, Len(p))

\* The extension runs from the last '.' of the basename to its end; it is
\* empty when there is no '.', when the last '.' is the first character of
\* the basename, and for the basename "..".
extname(p) ==
  LET b == basename(p)
      d == lastIndexOf(b, ".")
  IN IF d = 0 \/ d = 1 \/ b = ".." THEN "" ELSE SubSeq(b, d, Len(b))

(***************************************************************************)
(* minimatch(file, pattern, { matchBase: true }) for patterns made of      *)
(* literal characters, '*' inside a path segment and '**' as a whole       *)
(* segment (the shapes the action's configurations use).                   *)
(***************************************************************************)
\* 1-based index of the first '/' of p at or after position i, 0 when absent
RECURSIVE slashFrom(_, _)
slashFrom(p, i) ==
  IF i > Len(p) THEN 0
  ELSE IF CharAt(p, i) = "/" THEN i
  ELSE slashFrom(p, i + 1)

\* String.prototype.split('/')
RECURSIVE splitPath(_)
splitPath(p) ==
  LET i == slashFrom(p, 1)
  IN IF i = 0 THEN <<p>>
     ELSE <<SubSeq(p, 1, i - 1)>> \o splitPath(SubSeq(p, i + 1, Len(p)))

\* '*' matches any run of characters of one segment
RECURSIVE wildMatch(_, _)
wildMatch(s, pat) ==
  IF Len(pat) = 0 THEN Len(s) = 0
  ELSE IF CharAt(pat, 1) = "*"
       THEN \/ wildMatch(s, SubSeq(pat, 2, Len(pat)))
            \/ (Len(s) > 0 /\ wildMatch(SubSeq(s, 2, Len(s)), pat))
       ELSE /\ Len(s) > 0
            /\ CharAt(s, 1) = CharAt(pat, 1)
            /\ wildMatch(SubSeq(s, 2, Len(s)), SubSeq(pat, 2, Len(pat)))

\* one pattern segment against one path segment: a segment with magic never
\* matches the empty segment, and a leading '*' never matches a leading '.'
matchSegment(seg, pat) ==
  IF ~includes(pat, "*") THEN seg = pat
  ELSE /\ Len(seg) > 0
       /\ ~(startsWith(pat, "*") /\ startsWith(seg, "."))
       /\ wildMatch(seg, pat)

dotSegment(seg) == startsWith(seg, ".")

\* Minimatch.matchOne: segment by segment, '**' swallowing zero or more
\* segments that do not start with '.'
RECURSIVE matchOne(_, _)
matchOne(file, pat) ==
  IF Len(file) = 0 THEN Len(pat) = 0
  ELSE IF Len(pat) = 0 THEN FALSE
  ELSE IF Head(pat) = "**"
       THEN IF Len(pat) = 1
            THEN \A i \in 1..Len(file) : ~dotSegment(file[i])
            ELSE \E k \in 0..(Len(file) - 1) :
                   /\ \A i \in 1..k : ~dotSegment(file[i])
                   /\ matchOne(SubSeq(file, k + 1, Len(file)), Tail(pat))
       ELSE /\ matchSegment(Head(file), Head(pat))
            /\ matchOne(Tail(file), Tail(pat))

\* matchBase: a pattern without '/' is matched against the basename
minimatch(filename, pattern) ==
  LET file == splitPath(filename)
      pat  == splitPath(pattern)
  IN IF Len(pat) = 1 THEN matchOne(<<file[Len(file)]>>, pat)
     ELSE matchOne(file, pat)

(***************************************************************************)
(* FileAnalyzer (src/src/file-analyzer.js).  A changed file is a record    *)
(* [filename, status, changes]; a config is [maxFiles, excludePatterns].   *)
(***************************************************************************)
languageMap ==
  (".js" :> "javascript") @@ (".jsx" :> "javascript") @@
  (".ts" :> "typescript") @@ (".tsx" :> "typescript") @@
  (".py" :> "python") @@ (".java" :> "java") @@ (".cs" :> "csharp") @@
  (".cpp" :> "cpp") @@ (".c" :> "c") @@ (".h" :> "c") @@ (".hpp" :> "cpp") @@
  (".php" :> "php") @@ (".rb" :> "ruby") @@ (".go" :> "go") @@
  (".rs" :> "rust") @@ (".swift" :> "swift") @@ (".kt" :> "kotlin") @@
  (".scala" :> "scala") @@ (".sh" :> "bash") @@ (".bash" :> "bash") @@
  (".zsh" :> "bash") @@ (".ps1" :> "powershell") @@ (".sql" :> "sql") @@
  (".html" :> "html") @@ (".css" :> "css") @@ (".scss" :> "scss") @@
  (".sass" :> "sass") @@ (".less" :> "less") @@ (".vue" :> "vue") @@
  (".svelte" :> "svelte") @@ (".yaml" :> "yaml") @@ (".yml" :> "yaml") @@
  (".json" :> "json") @@ (".xml" :> "xml") @@ (".md" :> "markdown") @@
  (".dockerfile" :> "dockerfile") @@ (".r" :> "r") @@ (".m" :> "matlab") @@
  (".pl" :> "perl") @@ (".lua" :> "lua") @@ (".dart" :> "dart") @@
  (".elm" :> "elm") @@ (".ex" :> "elixir") @@ (".exs" :> "elixir") @@
  (".clj" :> "clojure") @@ (".fs" :> "fsharp") @@ (".vb" :> "vbnet") @@
  (".nim" :> "nim") @@ (".zig" :> "zig")

specialFiles ==
  { "dockerfile", "makefile", "rakefile", "gemfile", "podfile",
    "package.json", "composer.json", "pom.xml", "build.gradle", "cargo.toml",
    "requirements.txt", "setup.py", "tsconfig.json", "eslintrc", "prettierrc",
    "gitignore", "gitattributes", "editorconfig" }

binaryExtensions ==
  { ".png", ".jpg", ".jpeg", ".gif", ".svg", ".ico", ".webp",
    ".pdf", ".doc", ".docx", ".xls", ".xlsx", ".ppt", ".pptx",
    ".zip", ".tar", ".gz", ".rar", ".7z",
    ".exe", ".dll", ".so", ".dylib",
    ".bin", ".dat", ".db", ".sqlite",
    ".mp3", ".mp4", ".avi", ".mov", ".mkv",
    ".ttf", ".otf", ".woff", ".woff2",
    ".jar", ".war", ".ear",
    ".min.js", ".bundle.js" }

languagePriorities ==
  ("javascript" :> 15) @@ ("typescript" :> 15) @@ ("python" :> 12) @@
  ("java" :> 12) @@ ("csharp" :> 12) @@ ("go" :> 10) @@ ("rust" :> 10) @@
  ("php" :> 8) @@ ("ruby" :> 8)

\* variant: the extension is looked up without lower-casing it
detectLanguage_caseSensitive(filename) ==
  LET ext == extname(filename)
  IN IF toLowerCase(filename) = "dockerfile" THEN "dockerfile"
     ELSE IF toLowerCase(filename) = "makefile" THEN "makefile"
     ELSE IF ext \in DOMAIN languageMap THEN languageMap[ext]
     ELSE "text"

detectLanguage(filename) ==
  LET ext == toLowerCase(extname(filename))
  IN IF toLowerCase(filename) = "dockerfile" THEN "dockerfile"
     ELSE IF toLowerCase(filename) = "makefile" THEN "makefile"
     ELSE IF ext \in DOMAIN languageMap THEN languageMap[ext]
     ELSE "text"

\* variant: only the extension is looked at
isCodeFile_extOnly(filename) ==
  toLowerCase(extname(filename)) \in DOMAIN languageMap

isCodeFile(filename) ==
  LET ext == toLowerCase(extname(filename))
      base == toLowerCase(basename(filename))
  IN \/ ext \in DOMAIN languageMap
     \/ \E special \in specialFiles : includes(base, special)

isBinaryFile(filename) ==
  toLowerCase(extname(filename)) \in binaryExtensions

\* variant: the exclude patterns are not consulted
shouldReviewFile_noExclude(file, cfg) ==
  IF file.status = "removed" THEN FALSE
  ELSE IF isBinaryFile(file.filename) THEN FALSE
  ELSE IF file.changes > 1000 THEN FALSE
  ELSE isCodeFile(file.filename)

\* variant: no cap on the number of changes
shouldReviewFile_noSizeCap(file, cfg) ==
  IF file.status = "removed" THEN FALSE
  ELSE IF isBinaryFile(file.filename) THEN FALSE
  ELSE IF \E k \in 1..Len(cfg.excludePatterns) :
            minimatch(file.filename, cfg.excludePatterns[k]) THEN FALSE
  ELSE isCodeFile(file.filename)

shouldReviewFile(file, cfg) ==
  IF file.status = "removed" THEN FALSE
  ELSE IF isBinaryFile(file.filename) THEN FALSE
  ELSE IF \E k \in 1..Len(cfg.excludePatterns) :
            minimatch(file.filename, cfg.excludePatterns[k]) THEN FALSE
  ELSE IF file.changes > 1000 THEN FALSE
  ELSE isCodeFile(file.filename)

\* variant: the security bonus is added once per keyword found
calculateReviewPriority_perKeyword(file) ==
  LET filename == toLowerCase(file.filename)
      language == detectLanguage(file.filename)
  IN (IF includes(filename, "src/") \/ includes(filename, "lib/") THEN 20 ELSE 0)
   + (IF includes(filename, "test") \/ includes(filename, "spec") THEN 15 ELSE 0)
   + (IF includes(filename, "config") \/ includes(filename, "package.json")
      THEN 10 ELSE 0)
   + (IF includes(filename, "auth") THEN 25 ELSE 0)
   + (IF includes(filename, "security") THEN 25 ELSE 0)
   + (IF includes(filename, "login") THEN 25 ELSE 0)
   + (IF language \in DOMAIN languagePriorities
      THEN languagePriorities[language] ELSE 5)
   + (IF file.changes > 100 THEN 10 ELSE IF file.changes > 50 THEN 5 ELSE 0)

calculateReviewPriority(file) ==
  LET filename == toLowerCase(file.filename)
      language == detectLanguage(file.filename)
  IN (IF includes(filename, "src/") \/ includes(filename, "lib/") THEN 20 ELSE 0)
   + (IF includes(filename, "test") \/ includes(filename, "spec") THEN 15 ELSE 0)
   + (IF includes(filename, "config") \/ includes(filename, "package.json")
      THEN 10 ELSE 0)
   + (IF \/ includes(filename, "auth") \/ includes(filename, "security")
         \/ includes(filename, "login") THEN 25 ELSE 0)
   + (IF language \in DOMAIN languagePriorities
      THEN languagePriorities[language] ELSE 5)
   + (IF file.changes > 100 THEN 10 ELSE IF file.changes > 50 THEN 5 ELSE 0)

\* Array.prototype.filter
RECURSIVE filterReviewable(_, _)
filterReviewable(files, cfg) ==
  IF Len(files) = 0 THEN <<>>
  ELSE (IF shouldReviewFile(Head(files), cfg) THEN <<Head(files)>> ELSE <<>>)
       \o filterReviewable(Tail(files), cfg)

\* Array.prototype.slice(0, n)
sliceTo(s, n) == SubSeq(s, 1, IF n < Len(s) THEN n ELSE Len(s))

\* the .map step: the file with its language and reviewPriority
annotate(file) ==
  [filename |-> file.filename, status |-> file.status, changes |-> file.changes,
   language |-> detectLanguage(file.filename),
   reviewPriority |-> calculateReviewPriority(file)]

\* variant: an element goes before the elements of equal priority
insertByPriority_unstable(sorted, x) ==
  LET n == Cardinality({i \in 1..Len(sorted) :
                          sorted[i].reviewPriority > x.reviewPriority})
  IN SubSeq(sorted, 1, n) \o <<x>> \o SubSeq(sorted, n + 1, Len(sorted))

\* Array.prototype.sort((a, b) => b.reviewPriority - a.reviewPriority): the
\* sort of the Node 20 runtime is stable, so an element goes after every
\* element already placed whose priority is not lower
insertByPriority(sorted, x) ==
  LET n == Cardinality({i \in 1..Len(sorted) :
                          sorted[i].reviewPriority >= x.reviewPriority})
  IN SubSeq(sorted, 1, n) \o <<x>> \o SubSeq(sorted, n + 1, Len(sorted))

RECURSIVE sortByPriority(_)
sortByPriority(s) ==
  IF Len(s) = 0 THEN <<>>
  ELSE insertByPriority(sortByPriority(SubSeq(s, 1, Len(s) - 1)), s[Len(s)])

\* variant: the selected files are returned unsorted
filterFiles_noSort(files, cfg) ==
  LET kept == sliceTo(filterReviewable(files, cfg), cfg.maxFiles)
  IN [i \in 1..Len(kept) |-> annotate(kept[i])]

filterFiles(files, cfg) ==
  LET kept == sliceTo(filterReviewable(files, cfg), cfg.maxFiles)
  IN sortByPriority([i \in 1..Len(kept) |-> annotate(kept[i])])

(***************************************************************************)
(* FileAnalyzer.parseDiff.  A patch is [kind, text]: kind is "string",     *)
(* "null" or "undefined", text is the string (lines joined by a newline).  *)
(* The result is [added, removed, context], three sequences of records.    *)
(***************************************************************************)
DigitChars == "0123456789"

isDigit(c) == \E i \in 1..Len(DigitChars) : CharAt(DigitChars, i) = c

digitValue(c) == (CHOOSE i \in 1..Len(DigitChars) : CharAt(DigitChars, i) = c) - 1

\* parseInt of a non-empty run of decimal digits
RECURSIVE parseInt(_)
parseInt(ds) ==
  IF Len(ds) = 0 THEN 0
  ELSE 10 * parseInt(SubSeq(ds, 1, Len(ds) - 1)) + digitValue(CharAt(ds, Len(ds)))

\* index of the first character at or after i that is not a digit (\d*)
RECURSIVE digitsEnd(_, _)
digitsEnd(s, i) ==
  IF i <= Len(s) /\ isDigit(CharAt(s, i)) THEN digitsEnd(s, i + 1) ELSE i

\* s has the literal lit at position i
hasAt(s, i, lit) == i + Len(lit) - 1 <= Len(s) /\ SubSeq(s, i, i + Len(lit) - 1) = lit

\* /@@ -(\d+),?\d* \+(\d+),?\d* @@/ tried at position i of s: <<TRUE, group 2>>
\* when it matches there, <<FALSE, "">> otherwise
hunkMatchAt(s, i) ==
  LET a1 == i + 4
      a2 == digitsEnd(s, a1)
      a3 == IF hasAt(s, a2, ",") THEN a2 + 1 ELSE a2
      a4 == digitsEnd(s, a3)
      b1 == a4 + 2
      b2 == digitsEnd(s, b1)
      b3 == IF hasAt(s, b2, ",") THEN b2 + 1 ELSE b2
      b4 == digitsEnd(s, b3)
  IN IF /\ hasAt(s, i, "@@ -")
        /\ a2 > a1
        /\ hasAt(s, a4, " +")
        /\ b2 > b1
        /\ hasAt(s, b4, " @@")
     THEN <<TRUE, SubSeq(s, b1, b2 - 1)>>
     ELSE <<FALSE, "">>

\* String.prototype.match with that expression: the leftmost match
RECURSIVE hunkMatchFrom(_, _)
hunkMatchFrom(s, i) ==
  IF i > Len(s) THEN <<FALSE, "">>
  ELSE IF hunkMatchAt(s, i)[1] THEN hunkMatchAt(s, i)
  ELSE hunkMatchFrom(s, i + 1)

hunkMatch(line) == hunkMatchFrom(line, 1)

\* 1-based index of the first newline of s at or after position i, 0 when absent
RECURSIVE newlineFrom(_, _)
newlineFrom(s, i) ==
  IF i > Len(s) THEN 0
  ELSE IF CharAt(s, i) = "\n" THEN i
  ELSE newlineFrom(s, i + 1)

\* String.prototype.split('\n')
RECURSIVE splitLines(_)
splitLines(s) ==
  LET i == newlineFrom(s, 1)
  IN IF i = 0 THEN <<s>>
     ELSE <<SubSeq(s, 1, i - 1)>> \o splitLines(SubSeq(s, i + 1, Len(s)))

\* String.prototype.substring(1)
substring1(s) == SubSeq(s, 2, Len(s))

\* the state of the loop of parseDiff
EmptyDiff == [added |-> <<>>, removed |-> <<>>, context |-> <<>>]
StartScan == [currentLine |-> 0, added |-> <<>>, removed |-> <<>>, context |-> <<>>]

\* variant: a removed line advances the cursor too
parseLine_removedAdvances(st, line) ==
  IF startsWith(line, "@@")
  THEN IF hunkMatch(line)[1]
       THEN [st EXCEPT !.currentLine = parseInt(hunkMatch(line)[2])]
       ELSE st
  ELSE IF startsWith(line, "+") /\ ~startsWith(line, "+++")
  THEN [st EXCEPT !.added = Append(@, [line |-> st.currentLine,
                                       content |-> substring1(line)]),
                  !.currentLine = @ + 1]
  ELSE IF startsWith(line, "-") /\ ~startsWith(line, "---")
  THEN [st EXCEPT !.removed = Append(@, [content |-> substring1(line)]),
                  !.currentLine = @ + 1]
  ELSE IF startsWith(line, " ")
  THEN [st EXCEPT !.context = Append(@, [line |-> st.currentLine,
                                         content |-> substring1(line)]),
                  !.currentLine = @ + 1]
  ELSE st

\* variant: a '@@' line that does not match sets the cursor back to 0
parseLine_resetOnBadHeader(st, line) ==
  IF startsWith(line, "@@")
  THEN [st EXCEPT !.currentLine = IF hunkMatch(line)[1]
                                  THEN parseInt(hunkMatch(line)[2]) ELSE 0]
  ELSE IF startsWith(line, "+") /\ ~startsWith(line, "+++")
  THEN [st EXCEPT !.added = Append(@, [line |-> st.currentLine,
                                       content |-> substring1(line)]),
                  !.currentLine = @ + 1]
  ELSE IF startsWith(line, "-") /\ ~startsWith(line, "---")
  THEN [st EXCEPT !.removed = Append(@, [content |-> substring1(line)])]
  ELSE IF startsWith(line, " ")
  THEN [st EXCEPT !.context = Append(@, [line |-> st.currentLine,
                                         content |-> substring1(line)]),
                  !.currentLine = @ + 1]
  ELSE st

\* variant: the cursor is set to the length of the new side of the hunk
parseLine_hunkLength(st, line) ==
  IF startsWith(line, "@@")
  THEN IF hunkMatch(line)[1]
       THEN [st EXCEPT !.currentLine =
               LET i == lastIndexOf(line, ",")
               IN parseInt(SubSeq(line, i + 1, digitsEnd(line, i + 1) - 1))]
       ELSE st
  ELSE IF startsWith(line, "+") /\ ~startsWith(line, "+++")
  THEN [st EXCEPT !.added = Append(@, [line |-> st.currentLine,
                                       content |-> substring1(line)]),
                  !.currentLine = @ + 1]
  ELSE IF startsWith(line, "-") /\ ~startsWith(line, "---")
  THEN [st EXCEPT !.removed = Append(@, [content |-> substring1(line)])]
  ELSE IF startsWith(line, " ")
  THEN [st EXCEPT !.context = Append(@, [line |-> st.currentLine,
                                         content |-> substring1(line)]),
                  !.currentLine = @ + 1]
  ELSE st

\* one iteration of the loop of parseDiff (lines 273-291)
parseLine(st, line) ==
  IF startsWith(line, "@@")
  THEN IF hunkMatch(line)[1]
       THEN [st EXCEPT !.currentLine = parseInt(hunkMatch(line)[2])]
       ELSE st
  ELSE IF startsWith(line, "+") /\ ~startsWith(line, "+++")
  THEN [st EXCEPT !.added = Append(@, [line |-> st.currentLine,
                                       content |-> substring1(line)]),
                  !.currentLine = @ + 1]
  ELSE IF startsWith(line, "-") /\ ~startsWith(line, "---")
  THEN [st EXCEPT !.removed = Append(@, [content |-> substring1(line)])]
  ELSE IF startsWith(line, " ")
  THEN [st EXCEPT !.context = Append(@, [line |-> st.currentLine,
                                         content |-> substring1(line)]),
                  !.currentLine = @ + 1]
  ELSE st

RECURSIVE scanLines(_, _)
scanLines(st, lines) ==
  IF Len(lines) = 0 THEN st
  ELSE scanLines(parseLine(st, Head(lines)), Tail(lines))

\* the outcome of a call of a String method on null or undefined
TypeError == [threw |-> "TypeError"]

\* variant: no test of the patch before it is split
parseDiff_noGuard(patch) ==
  IF patch.kind # "string" THEN TypeError
  ELSE LET st == scanLines(StartScan, splitLines(patch.text))
       IN [added |-> st.added, removed |-> st.removed, context |-> st.context]

parseDiff(patch) ==
  IF patch.kind # "string" \/ patch.text = "" THEN EmptyDiff
  ELSE LET st == scanLines(StartScan, splitLines(patch.text))
       IN [added |-> st.added, removed |-> st.removed, context |-> st.context]

(***************************************************************************)
(* ReviewEngine (src/unnamed/part_004).  A finding (the review of one      *)
(* file) is [filename, score, issues]; an issue is [type, category,        *)
(* message] with an optional line and an optional suggestion.  A report    *)
(* body is the sequence of its lines; emoji are written by short name.     *)
(***************************************************************************)
UpperOf ==
  [c \in {CharAt(LowerChars, i) : i \in 1..Len(LowerChars)} |->
     CharAt(UpperChars, CHOOSE i \in 1..Len(LowerChars) : CharAt(LowerChars, i) = c)]

RECURSIVE toUpperCase(_)
toUpperCase(s) ==
  IF Len(s) = 0 THEN ""
  ELSE (IF CharAt(s, 1) \in DOMAIN UpperOf THEN UpperOf[CharAt(s, 1)] ELSE CharAt(s, 1))
       \o toUpperCase(SubSeq(s, 2, Len(s)))

\* reviews.reduce((sum, review) => sum + review.score, 0)
RECURSIVE totalScoreOf(_)
totalScoreOf(reviews) ==
  IF Len(reviews) = 0 THEN 0
  ELSE totalScoreOf(SubSeq(reviews, 1, Len(reviews) - 1)) + reviews[Len(reviews)].score

\* variant: the quotient is truncated
mathRound_floor(a, b) == a \div b

\* Math.round(a / b) for integers a and b > 0: the nearest integer, a half
\* going to the next integer above
mathRound(a, b) == (2 * a + b) \div (2 * b)

NoTally ==
  [errorCount |-> 0, warningCount |-> 0, suggestionCount |-> 0,
   securityIssues |-> 0, performanceIssues |-> 0]

\* variant: the category is looked at only when the type is none of the three
tallyIssue_typeOrCategory(t, issue) ==
  IF issue.type = "error" THEN [t EXCEPT !.errorCount = @ + 1]
  ELSE IF issue.type = "warning" THEN [t EXCEPT !.warningCount = @ + 1]
  ELSE IF issue.type = "suggestion" THEN [t EXCEPT !.suggestionCount = @ + 1]
  ELSE IF issue.category = "security" THEN [t EXCEPT !.securityIssues = @ + 1]
  ELSE IF issue.category = "performance" THEN [t EXCEPT !.performanceIssues = @ + 1]
  ELSE t

\* the body of the inner loop of calculateReviewStats
tallyIssue(t, issue) ==
  LET byType ==
        IF issue.type = "error" THEN [t EXCEPT !.errorCount = @ + 1]
        ELSE IF issue.type = "warning" THEN [t EXCEPT !.warningCount = @ + 1]
        ELSE IF issue.type = "suggestion" THEN [t EXCEPT !.suggestionCount = @ + 1]
        ELSE t
      bySecurity ==
        IF issue.category = "security"
        THEN [byType EXCEPT !.securityIssues = @ + 1] ELSE byType
  IN IF issue.category = "performance"
     THEN [bySecurity EXCEPT !.performanceIssues = @ + 1] ELSE bySecurity

RECURSIVE tallyIssues(_, _)
tallyIssues(t, issues) ==
  IF Len(issues) = 0 THEN t
  ELSE tallyIssues(tallyIssue(t, Head(issues)), Tail(issues))

RECURSIVE tallyReviews(_, _)
tallyReviews(t, reviews) ==
  IF Len(reviews) = 0 THEN t
  ELSE tallyReviews(tallyIssues(t, Head(reviews).issues), Tail(reviews))

\* NaN, the value of a sum that has met a missing score: it is written as
\* an integer that no sum of scores is (scores are 0..100), it is printed
\* as 'NaN' and every comparison with it is false
NaN == -1

\* some finding has no score field / no issues field
missingScore(reviews) == \E i \in 1..Len(reviews) : "score" \notin DOMAIN reviews[i]
missingIssues(reviews) == \E i \in 1..Len(reviews) : "issues" \notin DOMAIN reviews[i]

\* the reduce over the scores gives NaN as soon as one score is missing; the
\* loop over review.issues throws when a finding has no issues field
calculateReviewStats(reviews) ==
  IF missingIssues(reviews) THEN TypeError
  ELSE
  LET totalReviews == Len(reviews)
      t            == tallyReviews(NoTally, reviews)
  IN [averageScore      |-> IF totalReviews > 0
                            THEN (IF missingScore(reviews) THEN NaN
                                  ELSE mathRound(totalScoreOf(reviews), totalReviews))
                            ELSE 0,
      errorCount        |-> t.errorCount,
      warningCount      |-> t.warningCount,
      suggestionCount   |-> t.suggestionCount,
      securityIssues    |-> t.securityIssues,
      performanceIssues |-> t.performanceIssues]

\* variant: the test of the first band is strict
riskLabel_strict(avgScore) ==
  IF avgScore > 75 THEN "Low" ELSE IF avgScore >= 60 THEN "Medium" ELSE "High"

\* line 206 of formatReviewComment
riskLabel(avgScore) ==
  IF avgScore >= 75 THEN "Low" ELSE IF avgScore >= 60 THEN "Medium" ELSE "High"

\* variant: the tests are strict
recommendationOf_strict(avgScore) ==
  IF avgScore > 90 THEN "Approve"
  ELSE IF avgScore > 75 THEN "Approve with Comments"
  ELSE IF avgScore > 60 THEN "Request Changes"
  ELSE "Reject"

\* lines 207-216 of formatReviewComment
recommendationOf(avgScore) ==
  IF avgScore >= 90 THEN "Approve"
  ELSE IF avgScore >= 75 THEN "Approve with Comments"
  ELSE IF avgScore >= 60 THEN "Request Changes"
  ELSE "Reject"

\* issue.line || fallback, as text
lineText(issue, fallback) ==
  IF "line" \in DOMAIN issue /\ issue.line # 0 THEN ToString(issue.line) ELSE fallback

isError(issue) == "type" \in DOMAIN issue /\ issue.type = "error"

\* variant: the issues are not filtered by type
criticalIssueEntries_allTypes(review) ==
  [k \in 1..Len(review.issues) |->
     "- **" \o review.filename \o ":" \o lineText(review.issues[k], "") \o "** "
       \o review.issues[k].message]

\* lines 233-235: the entries of one finding in the Critical Issues section
criticalIssueEntries(review) ==
  LET errors == SelectSeq(review.issues, isError)
  IN [k \in 1..Len(errors) |->
        "- **" \o review.filename \o ":" \o lineText(errors[k], "") \o "** "
          \o errors[k].message]

RECURSIVE criticalIssueLines(_)
criticalIssueLines(reviews) ==
  IF Len(reviews) = 0 THEN << >>
  ELSE criticalIssueEntries(Head(reviews)) \o criticalIssueLines(Tail(reviews))

\* lines 274-280: the block of one finding in the Detailed Findings section
detailedFindingEntries(review) ==
  IF Len(review.issues) > 0
  THEN << "### " \o review.filename >>
       \o [k \in 1..Len(review.issues) |->
             "- [" \o toUpperCase(review.issues[k].type) \o "] Line "
               \o lineText(review.issues[k], "N/A") \o ": " \o review.issues[k].message]
       \o << "" >>
  ELSE << >>

RECURSIVE detailedFindingLines(_)
detailedFindingLines(reviews) ==
  IF Len(reviews) = 0 THEN << >>
  ELSE detailedFindingEntries(Head(reviews)) \o detailedFindingLines(Tail(reviews))

\* some issue of some finding has no type field
missingType(reviews) ==
  \E i \in 1..Len(reviews) : \E k \in 1..Len(reviews[i].issues) :
    "type" \notin DOMAIN reviews[i].issues[k]

\* a section that the engine leaves empty
emptySection(heading) == << heading, "- ", "" >>

\* the outcome of formatReviewComment: [body], the report body as the
\* sequence of its lines, or TypeError where calculateReviewStats throws
\* and where issue.type.toUpperCase() is called on an issue without a type;
\* every comparison with NaN is false.
formatReviewComment(reviews, overallSummary, totalFiles, totalIssues) ==
  IF missingIssues(reviews) THEN TypeError
  ELSE IF missingType(reviews) THEN TypeError
  ELSE
  LET stats    == calculateReviewStats(reviews)
      avgScore == stats.averageScore
      isNaN    == avgScore = NaN
      risk     == IF isNaN THEN "High" ELSE riskLabel(avgScore)
      recommendation == IF isNaN THEN "Reject" ELSE recommendationOf(avgScore)
  IN [body |->
     << "# **PR Review**",
        "",
        "## Executive Summary",
        "**Score:** " \o (IF isNaN THEN "NaN" ELSE ToString(avgScore))
          \o "/100 | **Risk:** " \o risk \o " | **Recommendation:** " \o recommendation,
        "",
        overallSummary,
        "" >>
     \o emptySection("## Key Strengths")
     \o << "## Critical Issues" >>
     \o (IF totalIssues > 0 THEN criticalIssueLines(reviews) \o << "" >>
         ELSE << "- None", "" >>)
     \o << "## Bugs Found",
           "| Bug Name | Affected Files | Description | Severity | Confidence |",
           "|---|---|---|---|---|",
           "" >>
     \o emptySection("## Areas for Improvement")
     \o emptySection("## Performance Considerations")
     \o emptySection("## Security Review")
     \o emptySection("## Testing Assessment")
     \o emptySection("## SOLID Principles Assessment")
     \o emptySection("## Documentation & Maintainability")
     \o << "## Detailed Findings" >>
     \o detailedFindingLines(reviews)]

typeEmojis ==
  [error |-> ":rotating_light:", warning |-> ":warning:", suggestion |-> ":bulb:"]

categoryEmojis ==
  "security" :> ":lock:" @@ "performance" :> ":zap:" @@
  "maintainability" :> ":wrench:" @@ "style" :> ":art:" @@
  "logic" :> ":brain:" @@ "best-practices" :> ":books:"

\* the body of an inline comment, as the sequence of its lines
formatIssueComment(issue) ==
  LET emoji == IF issue.type \in DOMAIN typeEmojis
               THEN typeEmojis[issue.type] ELSE ":bulb:"
      categoryEmoji == IF issue.category \in DOMAIN categoryEmojis
                       THEN categoryEmojis[issue.category] ELSE ""
  IN << emoji \o " **" \o toUpperCase(issue.type) \o "** " \o categoryEmoji,
        "", issue.message, "" >>
     \o (IF "suggestion" \in DOMAIN issue /\ issue.suggestion # ""
         THEN << "**Suggestion:**", issue.suggestion, "" >> ELSE << >>)
     \o << "*Category: " \o issue.category \o "*" >>

\* `${path}:${line}`
commentKey(path, line) == path \o ":" \o ToString(line)

\* issue.line && issue.line > 0, for a line that is absent or an integer
hasPositiveLine(issue) == "line" \in DOMAIN issue /\ issue.line # 0 /\ issue.line > 0

\* variant: only the presence of the line is tested
createReviewComments_noLineTest(file, review, existingCommentPaths) ==
  LET emitted ==
        SelectSeq(review.issues,
                  LAMBDA issue :
                    /\ "line" \in DOMAIN issue
                    /\ commentKey(file.filename, issue.line) \notin existingCommentPaths)
  IN [k \in 1..Len(emitted) |->
        [path |-> file.filename, line |-> emitted[k].line,
         body |-> formatIssueComment(emitted[k])]]

\* variant: the set of existing keys is not consulted
createReviewComments_noDedup(file, review, existingCommentPaths) ==
  LET emitted == SelectSeq(review.issues, hasPositiveLine)
  IN [k \in 1..Len(emitted) |->
        [path |-> file.filename, line |-> emitted[k].line,
         body |-> formatIssueComment(emitted[k])]]

\* the loop over review.issues: an issue that fails the line test or whose
\* key is in the set is passed over, every other one pushes a comment
createReviewComments(file, review, existingCommentPaths) ==
  LET emitted ==
        SelectSeq(review.issues,
                  LAMBDA issue :
                    /\ hasPositiveLine(issue)
                    /\ commentKey(file.filename, issue.line) \notin existingCommentPaths)
  IN [k \in 1..Len(emitted) |->
        [path |-> file.filename, line |-> emitted[k].line,
         body |-> formatIssueComment(emitted[k])]]

\* totalIssues after the loop of performReview: totalIssues += review.issues.length
RECURSIVE totalIssuesOf(_)
totalIssuesOf(rs) ==
  IF Len(rs) = 0 THEN 0 ELSE Len(Head(rs).issues) + totalIssuesOf(Tail(rs))

\* reviewComments after the loop of performReview over files whose reviews
\* are rs: reviewComments.push(...comments) for each file in turn
RECURSIVE collectReviewComments(_, _)
collectReviewComments(rs, existingCommentPaths) ==
  IF Len(rs) = 0 THEN << >>
  ELSE createReviewComments([filename |-> Head(rs).filename], Head(rs),
                            existingCommentPaths)
       \o collectReviewComments(Tail(rs), existingCommentPaths)

\* new Set(existingComments.map(c => `${c.path}:${c.line}`))
existingCommentKeys(existingComments) ==
  { commentKey(existingComments[k].path, existingComments[k].line) :
      k \in 1..Len(existingComments) }

(***************************************************************************)
(* Inputs.  ChangedFileUniverse is what getChangedFiles may report in a    *)
(* run; ProbeFiles is the larger set on which the FileAnalyzer methods are *)
(* exercised one file at a time.                                           *)
(***************************************************************************)
File(n, s, c) == [filename |-> n, status |-> s, changes |-> c]

ChangedFileUniverse ==
  { File("a.js", "modified", 40),
    File("docs.md", "added", 1000),
    File("src/auth/login.js", "modified", 40),
    File("src/big.js", "modified", 1001),
    File("src/old.js", "removed", 40),
    File("node_modules/x.js", "added", 40),
    File("pkg/package-lock.json", "modified", 40),
    File("logo.PNG", "added", 0) }

\* the lists of at most MaxChangedFiles files with pairwise distinct names
ChangedFileLists ==
  UNION { { l \in [1..n -> ChangedFileUniverse] :
              \A i, j \in 1..n : i # j => l[i].filename # l[j].filename }
          : n \in 0..MaxChangedFiles }

\* the exclude lists a validated configuration carries: the validator's
\* default list, and a list given by the user
DefaultExcludePatterns ==
  << "*.lock", "*.min.js", "*.map", "node_modules/**", "dist/**", "build/**",
     "*.svg", "*.png", "*.jpg", "*.jpeg", "*.gif", "*.ico" >>

UserExcludePatterns == << "*-lock.json", "node_modules/**" >>

RunConfigs ==
  [maxFiles : 1..MaxFilesCap,
   excludePatterns : {DefaultExcludePatterns, UserExcludePatterns}]

ProbeDirs == { "", "src/auth/", "lib/", "tests/", "docker/" }
ProbeStems ==
  { "app", "login", "config", "package", "requirements", "random",
    "Dockerfile", "DOCKERFILE", "Makefile", "" }
ProbeExts ==
  { "", ".js", ".JS", ".py", ".go", ".rb", ".json", ".txt", ".png", ".PNG",
    ".min.js", ".bundle.js", "." }
ProbeNames ==
  { d \o st \o e : d \in ProbeDirs, st \in ProbeStems, e \in ProbeExts }
  \ { d : d \in ProbeDirs }
ProbeStatuses == { "added", "modified", "removed" }
ProbeChanges == { 40, 50, 51, 100, 101, 1000, 1001 }
ProbeConfigs ==
  [maxFiles : {20},
   excludePatterns : { <<>>, << "*-lock.json", "node_modules/**", "*.min.js" >>,
                       << "docker/**", "*.txt" >> }]

(***************************************************************************)
(* ConfigValidator.validate of src/src/github-service.js.  The action      *)
(* inputs are the texts core.getInput returns (trimmed, "" when the input  *)
(* is not supplied).                                                       *)
(***************************************************************************)
Threw(message) == [threw |-> message]
Passed == [passed |-> TRUE]

\* a JavaScript number that may be NaN
Num(n) == [nan |-> FALSE, value |-> n]
NotANumber == [nan |-> TRUE, value |-> 0]

HexChars == "0123456789abcdef"
isHexDigit(c) == \E i \in 1..Len(HexChars) : CharAt(HexChars, i) = LowerChar(c)
hexValue(c) ==
  (CHOOSE i \in 1..Len(HexChars) : CharAt(HexChars, i) = LowerChar(c)) - 1

RECURSIVE hexDigitsEnd(_, _)
hexDigitsEnd(s, i) ==
  IF i <= Len(s) /\ isHexDigit(CharAt(s, i)) THEN hexDigitsEnd(s, i + 1) ELSE i

RECURSIVE parseHex(_)
parseHex(hs) ==
  IF Len(hs) = 0 THEN 0
  ELSE 16 * parseHex(SubSeq(hs, 1, Len(hs) - 1)) + hexValue(CharAt(hs, Len(hs)))

\* parseInt(text) with no radix: an optional sign, a 0x prefix that selects
\* base 16, then the longest run of digits; what follows the run is
\* ignored, and a text with no digit there is NaN
parseIntOf(text) ==
  LET negative == startsWith(text, "-")
      signed == negative \/ startsWith(text, "+")
      body == IF signed THEN SubSeq(text, 2, Len(text)) ELSE text
      hex == startsWith(toLowerCase(body), "0x")
      digits == IF hex THEN SubSeq(body, 3, hexDigitsEnd(body, 3) - 1)
                ELSE SubSeq(body, 1, digitsEnd(body, 1) - 1)
      magnitude == IF hex THEN parseHex(digits) ELSE parseInt(digits)
  IN IF Len(digits) = 0 THEN NotANumber
     ELSE Num(IF negative THEN 0 - magnitude ELSE magnitude)

\* core.getBooleanInput: the texts it accepts; any other text is a TypeError
BooleanTexts == { "true", "True", "TRUE", "false", "False", "FALSE" }

\* x || fallback for a text x
orElse(x, fallback) == IF x = "" THEN fallback ELSE x

ProviderNames == { "openai", "anthropic", "openrouter" }
ReviewLevels == { "basic", "standard", "detailed" }

\* variant: the provider name is not tested against the three names
providerCheck_noMembership(config) ==
  IF config.aiProvider = "openai" /\ config.openaiApiKey = ""
  THEN Threw("OpenAI API key is required when using OpenAI provider")
  ELSE IF config.aiProvider = "anthropic" /\ config.anthropicApiKey = ""
  THEN Threw("Anthropic API key is required when using Anthropic provider")
  ELSE IF config.aiProvider = "openrouter" /\ config.openrouterApiKey = ""
  THEN Threw("OpenRouter API key is required when using OpenRouter provider")
  ELSE Passed

\* lines 184-198: the provider and its API key
providerCheck(config) ==
  IF config.aiProvider = "openai" /\ config.openaiApiKey = ""
  THEN Threw("OpenAI API key is required when using OpenAI provider")
  ELSE IF config.aiProvider = "anthropic" /\ config.anthropicApiKey = ""
  THEN Threw("Anthropic API key is required when using Anthropic provider")
  ELSE IF config.aiProvider = "openrouter" /\ config.openrouterApiKey = ""
  THEN Threw("OpenRouter API key is required when using OpenRouter provider")
  ELSE IF config.aiProvider \notin ProviderNames
  THEN Threw("AI provider must be one of: \"openai\", \"anthropic\", \"openrouter\"")
  ELSE Passed

\* line 206: config.maxFiles < 1 || config.maxFiles > 100; both comparisons
\* are false for NaN
maxFilesOutOfRange(n) == ~n.nan /\ (n.value < 1 \/ n.value > 100)

\* the custom-prompts texts of the inputs that JSON.parse accepts
JsonTexts == { "{\"security\":\"check the auth flow\"}" }

validate(in) ==
  IF in.githubToken = ""
  THEN Threw("Input required and not supplied: github-token")
  ELSE IF \/ in.enableSecurityReview \notin BooleanTexts
          \/ in.enablePerformanceReview \notin BooleanTexts
          \/ in.enableBestPractices \notin BooleanTexts
  THEN TypeError
  ELSE
    LET cfg == [githubToken |-> in.githubToken,
                openaiApiKey |-> in.openaiApiKey,
                anthropicApiKey |-> in.anthropicApiKey,
                openrouterApiKey |-> in.openrouterApiKey,
                aiProvider |-> orElse(in.aiProvider, "openai"),
                maxFiles |-> parseIntOf(orElse(in.maxFiles, "20")),
                excludePatterns |-> in.excludePatterns,
                reviewLevel |-> orElse(in.reviewLevel, "standard"),
                customPrompts |-> in.customPrompts]
    IN IF "threw" \in DOMAIN providerCheck(cfg) THEN providerCheck(cfg)
       ELSE IF cfg.reviewLevel \notin ReviewLevels
       THEN Threw("Review level must be one of: basic, standard, detailed")
       ELSE IF maxFilesOutOfRange(cfg.maxFiles)
       THEN Threw("Max files must be between 1 and 100")
       ELSE IF cfg.customPrompts # "" /\ cfg.customPrompts \notin JsonTexts
       THEN Threw("Custom prompts must be valid JSON")
       ELSE [cfg EXCEPT !.excludePatterns =
                          IF Len(@) = 0 THEN DefaultExcludePatterns ELSE @]

(***************************************************************************)
(* ReviewEngine.performReview and reviewFile, with the calls they make to  *)
(* GitHubService.getFileContent, AIService.analyzeCode and parseResponse.  *)
(* A response of the GitHub contents API is [status, content]; the         *)
(* outcome of a provider call is [failed, message] or [failed, response],  *)
(* where a response is [json |-> FALSE] (no JSON object in the text) or    *)
(* [json |-> TRUE, parsed |-> the object JSON.parse yields].               *)
(***************************************************************************)
Null == [null |-> TRUE]

\* GitHubService.getFileContent: the text, null on 404, any other error
\* rethrown
getFileContent(response) ==
  IF response.status = 200 THEN [content |-> response.content]
  ELSE IF response.status = 404 THEN Null
  ELSE Threw(response.message)

\* !newContent
noContent(c) == "null" \in DOMAIN c \/ c.content = ""

InvalidFormat ==
  [summary |-> "Analysis completed but response format was invalid",
   issues |-> << >>, suggestions |-> << >>, score |-> 0, strengths |-> << >>,
   concerns |-> << "Failed to parse AI response" >>]

\* x.field || fallback for a field that is absent or an array
fieldOr(x, field, fallback) == IF field \in DOMAIN x THEN x[field] ELSE fallback

\* AIService.parseResponse
parseResponse(response) ==
  IF ~response.json THEN InvalidFormat
  ELSE LET parsed == response.parsed
       IN IF \/ "summary" \notin DOMAIN parsed
             \/ parsed.summary = ""
             \/ "issues" \notin DOMAIN parsed
          THEN InvalidFormat
          ELSE [summary |-> parsed.summary,
                issues |-> parsed.issues,
                suggestions |-> fieldOr(parsed, "suggestions", << >>),
                score |-> IF "score" \in DOMAIN parsed THEN parsed.score ELSE 0,
                strengths |-> fieldOr(parsed, "strengths", << >>),
                concerns |-> fieldOr(parsed, "concerns", << >>)]

\* AIService.analyzeCode: the provider call and parseResponse, in a try
\* whose catch returns the 'Analysis failed' finding
analyzeCode(filename, ai) ==
  IF ai.failed
  THEN [summary |-> "Analysis failed for " \o filename \o ": " \o ai.message,
        issues |-> << >>, suggestions |-> << >>, score |-> 0]
  ELSE parseResponse(ai.response)

\* variant: a head content that is missing is not tested
reviewFile_noContentTest(file, oldResponse, newResponse, ai) ==
  LET oldContent == IF file.status = "added" THEN Null
                    ELSE getFileContent(oldResponse)
      newContent == getFileContent(newResponse)
  IN IF "threw" \in DOMAIN oldContent THEN oldContent
     ELSE IF "threw" \in DOMAIN newContent THEN newContent
     ELSE [filename |-> file.filename, language |-> file.language,
           status |-> file.status] @@ analyzeCode(file.filename, ai)

\* ReviewEngine.reviewFile: the finding, or what it throws
reviewFile(file, oldResponse, newResponse, ai) ==
  LET oldContent == IF file.status = "added" THEN Null
                    ELSE getFileContent(oldResponse)
      newContent == getFileContent(newResponse)
  IN IF "threw" \in DOMAIN oldContent THEN oldContent
     ELSE IF "threw" \in DOMAIN newContent THEN newContent
     ELSE IF noContent(newContent) /\ file.status # "removed"
     THEN Threw("Unable to fetch file content")
     ELSE [filename |-> file.filename, language |-> file.language,
           status |-> file.status] @@ analyzeCode(file.filename, ai)

\* variant: the keys of the comments made are added to the set
tryCreateReviewComments_recordsKeys(file, review, existingCommentPaths) ==
  IF \E k \in 1..Len(review.issues) :
       /\ hasPositiveLine(review.issues[k])
       /\ commentKey(file.filename, review.issues[k].line) \notin existingCommentPaths
       /\ "type" \notin DOMAIN review.issues[k]
  THEN TypeError
  ELSE LET made == createReviewComments(file, review, existingCommentPaths)
       IN [comments |-> made, review |-> review,
           existingCommentPaths |->
             existingCommentPaths
               \cup { commentKey(made[k].path, made[k].line) : k \in 1..Len(made) }]

\* the call of createReviewComments as performReview sees it: it throws
\* when formatIssueComment meets issue.type.toUpperCase() on an issue with
\* no type, and else returns the comments; the review and the set are
\* only read
tryCreateReviewComments(file, review, existingCommentPaths) ==
  IF \E k \in 1..Len(review.issues) :
       /\ hasPositiveLine(review.issues[k])
       /\ commentKey(file.filename, review.issues[k].line) \notin existingCommentPaths
       /\ "type" \notin DOMAIN review.issues[k]
  THEN TypeError
  ELSE [comments |-> createReviewComments(file, review, existingCommentPaths),
        review |-> review,
        existingCommentPaths |-> existingCommentPaths]

\* lines 51-57: the finding the catch of the loop pushes
failedReview(file, message) ==
  [filename |-> file.filename, summary |-> "Review failed: " \o message,
   issues |-> << >>, suggestions |-> << >>, score |-> 0]

\* variant: totalIssues counts the comments made
reviewOne_countsComments(loop, file, review) ==
  IF "threw" \in DOMAIN review
  THEN [loop EXCEPT !.reviews = Append(@, failedReview(file, review.threw))]
  ELSE
    LET made == tryCreateReviewComments(file, review, loop.existingCommentPaths)
    IN IF "threw" \in DOMAIN made
       THEN [loop EXCEPT
               !.reviews = Append(Append(@, review), failedReview(file, made.threw)),
               !.totalIssues = @ + Len(review.issues)]
       ELSE [loop EXCEPT
               !.reviews = Append(@, made.review),
               !.totalIssues = @ + Len(made.comments),
               !.reviewComments = @ \o made.comments,
               !.existingCommentPaths = made.existingCommentPaths]

\* lines 35-58, one iteration of the loop of performReview for a file whose
\* reviewFile gave review; loop is [reviews, totalIssues, reviewComments,
\* existingCommentPaths].  The try pushes the review and counts its issues
\* before createReviewComments runs, so when that call throws the catch
\* pushes a second finding for the file
reviewOne(loop, file, review) ==
  IF "threw" \in DOMAIN review
  THEN [loop EXCEPT !.reviews = Append(@, failedReview(file, review.threw))]
  ELSE
    LET made == tryCreateReviewComments(file, review, loop.existingCommentPaths)
    IN IF "threw" \in DOMAIN made
       THEN [loop EXCEPT
               !.reviews = Append(Append(@, review), failedReview(file, made.threw)),
               !.totalIssues = @ + Len(review.issues)]
       ELSE [loop EXCEPT
               !.reviews = Append(@, made.review),
               !.totalIssues = @ + Len(review.issues),
               !.reviewComments = @ \o made.comments,
               !.existingCommentPaths = made.existingCommentPaths]

\* variant: one issue is not enough to request changes
determineReviewEvent_moreThanOne(total) ==
  IF total > 1 THEN "REQUEST_CHANGES" ELSE "COMMENT"

\* ReviewEngine.determineReviewEvent
determineReviewEvent(total) ==
  IF total > 0 THEN "REQUEST_CHANGES" ELSE "COMMENT"

\* variant: the report always goes out as a review
firstPublishCall_alwaysReview(reviewComments, total) ==
  [call |-> "submitReview", event |-> determineReviewEvent(total)]

\* lines 71-84: the call that first tries to publish the report
firstPublishCall(reviewComments, total) ==
  IF Len(reviewComments) > 0
  THEN [call |-> "submitReview", event |-> determineReviewEvent(total)]
  ELSE [call |-> "postComment"]

(***************************************************************************)
(* State.                                                                  *)
(***************************************************************************)
VARIABLES
  pc,             \* position of run(): see the actions
  config,         \* the validated configuration
  changedFiles,   \* result of getChangedFiles
  filesToReview,  \* result of filterFiles
  idx,            \* loop index of performReview (1-based)
  aiCalls,        \* file names passed to AIService.analyzeCode, in order
  notices,        \* number of 'no files found' comments posted
  probe,          \* the file name handed to a FileAnalyzer method
  out,            \* [op, file, cfg, val]: the method called on probe, the
                  \* file and configuration it ran with, and its result
  patch,          \* the patch handed to parseDiff
  diff,           \* what parseDiff returned for it
  reviews,        \* the per-file findings handed to the ReviewEngine methods
  existing,       \* existingCommentPaths: the 'path:line' keys of the
                  \* comments the pull request already has
  comments,       \* reviewComments: the inline comments of the current pass
  result,         \* [op, val]: the method called and its result
  inputs,         \* the action inputs read by ConfigValidator.validate
  totalIssues,    \* totalIssues of performReview
  githubCalls,    \* the GitHubService methods performReview called, in order
  published,      \* the calls that published the report: [call, event]
  outputs         \* the names run() passed to core.setOutput

vars == << pc, config, changedFiles, filesToReview, idx, aiCalls,
           notices, probe, out, patch, diff, reviews, existing, comments,
           result, inputs, totalIssues, githubCalls, published, outputs >>

runVars == << pc, config, changedFiles, filesToReview, idx, aiCalls,
              notices >>
probeVars == << probe, out >>
diffVars == << patch, diff >>
engineVars == << reviews, existing, comments, result >>
reviewVars == << inputs, totalIssues, githubCalls, published, outputs >>

NoProbe == ""
NoConfig == [maxFiles |-> 1, excludePatterns |-> <<>>]
NoOut == [op |-> "none", file |-> File("", "none", 0), cfg |-> NoConfig,
          val |-> "none"]
NoPatch == [kind |-> "string", text |-> ""]
NoDiff == [threw |-> "not called"]
NoResult == [op |-> "none", val |-> "none"]
NoInputs == [called |-> FALSE]

\* the variables of parseDiff and of the ReviewEngine before any call
DiffIdle == patch = NoPatch /\ diff = NoDiff
EngineIdle ==
  reviews = <<>> /\ existing = {} /\ comments = <<>> /\ result = NoResult
ReviewIdle ==
  /\ inputs = NoInputs
  /\ totalIssues = 0
  /\ githubCalls = <<>>
  /\ published = <<>>
  /\ outputs = {}

(***************************************************************************)
(* run() of src/src/index.js.                                              *)
(***************************************************************************)
Init ==
  /\ pc = "start"
  /\ config \in RunConfigs
  /\ changedFiles = <<>>
  /\ filesToReview = <<>>
  /\ idx = 1
  /\ aiCalls = <<>>
  /\ notices = 0
  /\ probe = NoProbe
  /\ out = NoOut
  /\ ReviewIdle
  /\ DiffIdle
  /\ EngineIdle

\* lines 26-36: the checks of github.context, the event name and the
\* presence of the pull request payload
EventNames == {"pull_request", "pull_request_target", "push"}

CheckContext ==
  /\ pc = "start"
  /\ \E eventName \in EventNames, hasPullRequest \in BOOLEAN :
       pc' = IF eventName \notin {"pull_request", "pull_request_target"}
             THEN "skipped"
             ELSE IF ~hasPullRequest THEN "failed"
             ELSE "getFiles"
  /\ UNCHANGED << config, changedFiles, filesToReview, idx, aiCalls,
                  notices, probe, out, diffVars, engineVars, reviewVars >>

\* lines 41-44: githubService.getChangedFiles returns a list
GetChangedFiles ==
  /\ pc = "getFiles"
  /\ \E files \in ChangedFileLists : changedFiles' = files
  /\ pc' = "fetched"
  /\ UNCHANGED << config, filesToReview, idx, aiCalls, notices,
                  probe, out, diffVars, engineVars, reviewVars >>

\* lines 41-44 and 76-80: githubService.getChangedFiles throws
GetChangedFilesFails ==
  /\ pc = "getFiles"
  /\ pc' = "failed"
  /\ UNCHANGED << config, changedFiles, filesToReview, idx, aiCalls,
                  notices, probe, out, diffVars, engineVars, reviewVars >>

\* variant: the test for an empty result is left out
nextAfterFilter_alwaysReviews(files) == "reviewing"

\* line 51: if (filesToReview.length === 0)
nextAfterFilter(files) == IF Len(files) = 0 THEN "noFiles" ELSE "reviewing"

\* lines 49-58: filterFiles and the test for an empty result
FilterFiles ==
  /\ pc = "fetched"
  /\ filesToReview' = filterFiles(changedFiles, config)
  /\ pc' = nextAfterFilter(filesToReview')
  /\ UNCHANGED << config, changedFiles, idx, aiCalls, notices,
                  probe, out, diffVars, engineVars, reviewVars >>

\* lines 52-55: the notice comment, then return
PostNoFilesNotice ==
  /\ pc = "noFiles"
  /\ notices' = notices + 1
  /\ pc' = "done"
  /\ UNCHANGED << config, changedFiles, filesToReview, idx, aiCalls,
                  probe, out, diffVars, engineVars, reviewVars >>

\* lines 53 and 76-80: postComment throws
PostNoFilesNoticeFails ==
  /\ pc = "noFiles"
  /\ pc' = "failed"
  /\ UNCHANGED << config, changedFiles, filesToReview, idx, aiCalls,
                  notices, probe, out, diffVars, engineVars, reviewVars >>

\* one iteration of the loop of performReview: reviewFile fetches the
\* content and, when it got some, calls analyzeCode for the file
ReviewFile ==
  /\ pc = "reviewing"
  /\ idx <= Len(filesToReview)
  /\ \E fetched \in {"content", "nothing", "error"} :
       aiCalls' = IF fetched = "content"
                  THEN Append(aiCalls, filesToReview[idx].filename)
                  ELSE aiCalls
  /\ idx' = idx + 1
  /\ UNCHANGED << pc, config, changedFiles, filesToReview, notices,
                  probe, out, diffVars, engineVars, reviewVars >>

\* lines 65-68: the four outputs of run()
OutputNames ==
  { "review-summary", "issues-found", "files-reviewed", "review-url" }

\* the loop of performReview is over; run() sets its outputs
FinishReview ==
  /\ pc = "reviewing"
  /\ idx > Len(filesToReview)
  /\ pc' = "done"
  /\ outputs' = OutputNames
  /\ UNCHANGED << config, changedFiles, filesToReview, idx, aiCalls,
                  notices, probe, out, diffVars, engineVars, inputs,
                  totalIssues, githubCalls, published >>

\* lines 61-66 and 76-80: performReview throws (formatReviewComment threw,
\* or the report could not be published); run() marks the action failed
PerformReviewFails ==
  /\ pc = "reviewing"
  /\ idx > Len(filesToReview)
  /\ pc' = "failed"
  /\ UNCHANGED << config, changedFiles, filesToReview, idx, aiCalls,
                  notices, probe, out, diffVars, engineVars, reviewVars >>

Next ==
  \/ CheckContext
  \/ GetChangedFiles
  \/ GetChangedFilesFails
  \/ FilterFiles
  \/ PostNoFilesNotice
  \/ PostNoFilesNoticeFails
  \/ ReviewFile
  \/ FinishReview
  \/ PerformReviewFails

Spec == Init /\ [][Next]_vars

(***************************************************************************)
(* The FileAnalyzer methods applied to one file: the specification         *)
(* SpecAnalyzer constructs a FileAnalyzer with a configuration and calls   *)
(* one of its methods on one file.                                         *)
(***************************************************************************)
InitAnalyzer ==
  /\ pc = "idle"
  /\ config = NoConfig
  /\ changedFiles = <<>>
  /\ filesToReview = <<>>
  /\ idx = 1
  /\ aiCalls = <<>>
  /\ notices = 0
  /\ probe \in ProbeNames
  /\ out = NoOut
  /\ ReviewIdle
  /\ DiffIdle
  /\ EngineIdle

CallDetectLanguage ==
  /\ out.op = "none"
  /\ out' = [NoOut EXCEPT !.op = "detectLanguage",
                          !.val = detectLanguage(probe)]
  /\ UNCHANGED << runVars, probe, diffVars, engineVars, reviewVars >>

CallIsCodeFile ==
  /\ out.op = "none"
  /\ out' = [NoOut EXCEPT !.op = "isCodeFile", !.val = isCodeFile(probe)]
  /\ UNCHANGED << runVars, probe, diffVars, engineVars, reviewVars >>

CallIsBinaryFile ==
  /\ out.op = "none"
  /\ out' = [NoOut EXCEPT !.op = "isBinaryFile", !.val = isBinaryFile(probe)]
  /\ UNCHANGED << runVars, probe, diffVars, engineVars, reviewVars >>

CallShouldReviewFile ==
  /\ out.op = "none"
  /\ \E st \in ProbeStatuses, ch \in ProbeChanges, cfg \in ProbeConfigs :
       out' = [op |-> "shouldReviewFile", file |-> File(probe, st, ch),
               cfg |-> cfg, val |-> shouldReviewFile(File(probe, st, ch), cfg)]
  /\ UNCHANGED << runVars, probe, diffVars, engineVars, reviewVars >>

CallCalculateReviewPriority ==
  /\ out.op = "none"
  /\ \E st \in ProbeStatuses, ch \in ProbeChanges :
       out' = [op |-> "calculateReviewPriority", file |-> File(probe, st, ch),
               cfg |-> NoConfig,
               val |-> calculateReviewPriority(File(probe, st, ch))]
  /\ UNCHANGED << runVars, probe, diffVars, engineVars, reviewVars >>

NextAnalyzer ==
  \/ CallDetectLanguage
  \/ CallIsCodeFile
  \/ CallIsBinaryFile
  \/ CallShouldReviewFile
  \/ CallCalculateReviewPriority

SpecAnalyzer == InitAnalyzer /\ [][NextAnalyzer]_vars

(***************************************************************************)
(* parseDiff applied to one patch: the specification SpecDiff hands        *)
(* parseDiff a patch of at most MaxPatchLines lines (or the patch of the   *)
(* repository's test, or no patch at all) and records what it returns.     *)
(***************************************************************************)
PatchLineUniverse ==
  { "@@ -1,3 +1,4 @@", "@@ -7 +12 @@ fn", "@@ -x +y @@",
    "+a", "-b", " c", "\\ No newline at end of file" }

\* the two file header lines that open the diff of a file
FileHeader == << "--- a/f.js", "+++ b/f.js" >>

RECURSIVE joinLines(_)
joinLines(lines) ==
  IF Len(lines) = 0 THEN ""
  ELSE IF Len(lines) = 1 THEN lines[1]
  ELSE lines[1] \o "\n" \o joinLines(Tail(lines))

\* one hunk: a context line, an added line, a removed line, a context line
OneHunkPatch ==
  joinLines(<< "@@ -1,3 +1,4 @@", " c1", "+a1", "-r1", " c2" >>)

\* the lists of at most n lines of the universe
LineLists(n) == UNION { [1..k -> PatchLineUniverse] : k \in 0..n }

PatchTexts ==
  { joinLines(l) : l \in LineLists(MaxPatchLines) }
  \cup { joinLines(FileHeader \o l) : l \in LineLists(MaxPatchLines - 2) }
  \cup { OneHunkPatch }

Patches ==
  { [kind |-> "string", text |-> t] : t \in PatchTexts }
  \cup { [kind |-> "null", text |-> ""], [kind |-> "undefined", text |-> ""] }

InitDiff ==
  /\ pc = "idle"
  /\ config = NoConfig
  /\ changedFiles = <<>>
  /\ filesToReview = <<>>
  /\ idx = 1
  /\ aiCalls = <<>>
  /\ notices = 0
  /\ probe = NoProbe
  /\ out = NoOut
  /\ ReviewIdle
  /\ patch \in Patches
  /\ diff = NoDiff
  /\ EngineIdle

CallParseDiff ==
  /\ diff = NoDiff
  /\ diff' = parseDiff(patch)
  /\ UNCHANGED << runVars, probeVars, patch, engineVars, reviewVars >>

NextDiff == CallParseDiff

SpecDiff == InitDiff /\ [][NextDiff]_vars

(***************************************************************************)
(* The ReviewEngine methods applied to a list of findings: the             *)
(* specification SpecEngine calls calculateReviewStats,                    *)
(* formatReviewComment or createReviewComments on the findings of at most  *)
(* MaxReviews files, or runs the comment loop of performReview on them     *)
(* twice, the second time on a pull request that holds the comments of     *)
(* the first.                                                              *)
(***************************************************************************)
IssueErrorSecurity == [type |-> "error", category |-> "security", line |-> 1, message |-> "m1"]
IssueWarningPerformance == [type |-> "warning", category |-> "performance", line |-> 2, message |-> "m2"]
IssueSuggestionNoLine == [type |-> "suggestion", category |-> "style", message |-> "m3"]
IssueErrorLineZero == [type |-> "error", category |-> "logic", line |-> 0, message |-> "m4"]
IssueWarningNegativeLine == [type |-> "warning", category |-> "security", line |-> -1, message |-> "m5"]
IssueSuggestionSameLine ==
  [type |-> "suggestion", category |-> "performance", line |-> 1, message |-> "m6",
   suggestion |-> "s6"]
IssueInfo == [type |-> "info", category |-> "maintainability", line |-> 3, message |-> "m7"]

IssueLists ==
  { << >>,
    << IssueErrorSecurity >>,
    << IssueErrorSecurity, IssueSuggestionSameLine >>,
    << IssueWarningPerformance, IssueSuggestionNoLine >>,
    << IssueErrorLineZero, IssueWarningNegativeLine >>,
    << IssueInfo, IssueErrorSecurity, IssueWarningPerformance >> }

\* the name of the i-th file of the pull request
FileNameAt(i) == "f" \o ToString(i) \o ".js"

ScoreSamples == { 0, 40, 60, 75, 95, 100 }
AllScores == 0..100

\* findings with issues, findings that differ by their score only, and a
\* single finding with each score of 0..100
ReviewLists ==
  UNION { { [i \in 1..n |-> [filename |-> FileNameAt(i), score |-> sc[i], issues |-> is[i]]] :
              sc \in [1..n -> {40, 95}], is \in [1..n -> IssueLists] }
          : n \in 0..MaxReviews }
  \cup UNION { { [i \in 1..n |-> [filename |-> FileNameAt(i), score |-> sc[i], issues |-> << >>]] :
                   sc \in [1..n -> ScoreSamples] }
               : n \in 0..MaxReviews }
  \cup { << [filename |-> FileNameAt(1), score |-> sc, issues |-> << >>] >> : sc \in AllScores }

\* the review comments the pull request already has
ExistingCommentLists ==
  { << >>,
    << [path |-> FileNameAt(1), line |-> 1] >>,
    << [path |-> FileNameAt(1), line |-> 1], [path |-> FileNameAt(2), line |-> 2],
       [path |-> FileNameAt(1), line |-> 3] >> }

SummaryTexts == { "Overall the change is sound." }

InitEngine ==
  /\ pc = "engine"
  /\ config = NoConfig
  /\ changedFiles = <<>>
  /\ filesToReview = <<>>
  /\ idx = 1
  /\ aiCalls = <<>>
  /\ notices = 0
  /\ probe = NoProbe
  /\ out = NoOut
  /\ ReviewIdle
  /\ DiffIdle
  /\ reviews \in ReviewLists
  /\ existing = {}
  /\ comments = <<>>
  /\ result = NoResult

CallCalculateReviewStats ==
  /\ pc = "engine"
  /\ pc' = "called"
  /\ result' = [op |-> "calculateReviewStats", val |-> calculateReviewStats(reviews)]
  /\ UNCHANGED << config, changedFiles, filesToReview, idx, aiCalls, notices,
                  probeVars, diffVars, reviewVars, reviews, existing, comments >>

\* line 66 of performReview
CallFormatReviewComment ==
  /\ pc = "engine"
  /\ pc' = "called"
  /\ \E overallSummary \in SummaryTexts :
       result' = [op |-> "formatReviewComment",
                  val |-> formatReviewComment(reviews, overallSummary, Len(reviews),
                                              totalIssuesOf(reviews))]
  /\ UNCHANGED << config, changedFiles, filesToReview, idx, aiCalls, notices,
                  probeVars, diffVars, reviewVars, reviews, existing, comments >>

\* createReviewComments on the k-th finding
CallCreateReviewComments ==
  /\ pc = "engine"
  /\ pc' = "called"
  /\ \E k \in 1..Len(reviews), existingComments \in ExistingCommentLists :
       /\ existing' = existingCommentKeys(existingComments)
       /\ result' = [op |-> "createReviewComments", arg |-> k,
                     val |-> createReviewComments([filename |-> reviews[k].filename],
                                                  reviews[k], existing')]
  /\ UNCHANGED << config, changedFiles, filesToReview, idx, aiCalls, notices,
                  probeVars, diffVars, reviewVars, reviews, comments >>

\* lines 26-47 of performReview: the existing comments are fetched and the
\* loop over the files collects the inline comments
FirstPass ==
  /\ pc = "engine"
  /\ pc' = "posted"
  /\ \E existingComments \in ExistingCommentLists :
       /\ existing' = existingCommentKeys(existingComments)
       /\ comments' = collectReviewComments(reviews, existing')
  /\ result' = [op |-> "performReview", val |-> comments']
  /\ UNCHANGED << config, changedFiles, filesToReview, idx, aiCalls, notices,
                  probeVars, diffVars, reviewVars, reviews >>

\* the same lines in a second run over the same findings: the pull request
\* now holds the comments of the first run too
SecondPass ==
  /\ pc = "posted"
  /\ pc' = "rerun"
  /\ existing' = existing \cup
                 existingCommentKeys([k \in 1..Len(comments) |->
                                        [path |-> comments[k].path,
                                         line |-> comments[k].line]])
  /\ comments' = collectReviewComments(reviews, existing')
  /\ UNCHANGED << config, changedFiles, filesToReview, idx, aiCalls, notices,
                  probeVars, diffVars, reviewVars, reviews, result >>

NextEngine ==
  \/ CallCalculateReviewStats
  \/ CallFormatReviewComment
  \/ CallCreateReviewComments
  \/ FirstPass
  \/ SecondPass

SpecEngine == InitEngine /\ [][NextEngine]_vars

(***************************************************************************)
(* calculateReviewStats and formatReviewComment applied to findings that   *)
(* lack a score or an issue list: the specification SpecPartial.           *)
(***************************************************************************)
\* the fields a finding may carry besides its file name
FindingShapes ==
  { [score |-> 80, issues |-> << IssueErrorSecurity >>],
    [score |-> 40, issues |-> << >>],
    [score |-> 95, issues |-> << >>],
    [issues |-> << IssueWarningPerformance >>],
    [issues |-> << >>],
    [score |-> 90],
    [summary |-> "no score and no issues"] }

withFilename(shape, name) == [filename |-> name] @@ shape

\* the lists of at most MaxReviews findings of which one at least lacks a
\* field
PartialReviewLists ==
  LET lists == UNION { { [i \in 1..n |-> withFilename(sh[i], FileNameAt(i))] :
                           sh \in [1..n -> FindingShapes] }
                       : n \in 1..MaxReviews }
  IN { l \in lists : missingScore(l) \/ missingIssues(l) }

InitPartial ==
  /\ pc = "engine"
  /\ config = NoConfig
  /\ changedFiles = <<>>
  /\ filesToReview = <<>>
  /\ idx = 1
  /\ aiCalls = <<>>
  /\ notices = 0
  /\ probe = NoProbe
  /\ out = NoOut
  /\ ReviewIdle
  /\ DiffIdle
  /\ reviews \in PartialReviewLists
  /\ existing = {}
  /\ comments = <<>>
  /\ result = NoResult

NextPartial ==
  \/ CallCalculateReviewStats
  \/ CallFormatReviewComment

SpecPartial == InitPartial /\ [][NextPartial]_vars

(***************************************************************************)
(* ConfigValidator.validate on its own: the inputs are drawn, then         *)
(* validate() reads them.                                                  *)
(***************************************************************************)
MaxFilesTexts ==
  { "", "1", "20", "100", "0", "101", "-5", "abc", "10abc", "5.7", "0x1F",
    "+7", "x9" }

ActionInputs ==
  [githubToken : { "", "ghs_token" },
   openaiApiKey : { "", "sk-openai" },
   anthropicApiKey : { "", "sk-ant" },
   openrouterApiKey : { "", "sk-or" },
   aiProvider : { "", "openai", "anthropic", "openrouter", "gemini" },
   maxFiles : MaxFilesTexts,
   excludePatterns : { << >>, UserExcludePatterns },
   reviewLevel : { "", "detailed", "extreme" },
   customPrompts : { "", "{\"security\":\"check the auth flow\"}", "{not json" },
   enableSecurityReview : { "true", "yes" },
   enablePerformanceReview : { "false" },
   enableBestPractices : { "True" }]

InitConfig ==
  /\ pc = "config"
  /\ config = NoConfig
  /\ changedFiles = <<>>
  /\ filesToReview = <<>>
  /\ idx = 1
  /\ aiCalls = <<>>
  /\ notices = 0
  /\ probe = NoProbe
  /\ out = NoOut
  /\ DiffIdle
  /\ EngineIdle
  /\ inputs \in ActionInputs
  /\ totalIssues = 0
  /\ githubCalls = <<>>
  /\ published = <<>>
  /\ outputs = {}

CallValidate ==
  /\ pc = "config"
  /\ pc' = "validated"
  /\ result' = [op |-> "validate", val |-> validate(inputs)]
  /\ UNCHANGED << config, changedFiles, filesToReview, idx, aiCalls, notices,
                  probeVars, diffVars, reviews, existing, comments, inputs,
                  totalIssues, githubCalls, published, outputs >>

NextConfig == CallValidate

SpecConfig == InitConfig /\ [][NextConfig]_vars

(***************************************************************************)
(* ReviewEngine.performReview step by step: the existing comments are      *)
(* fetched, each file is reviewed in turn, the report is formatted and     *)
(* then published.                                                         *)
(***************************************************************************)
IssueNoType == [category |-> "logic", line |-> 4, message |-> "m8"]
IssueNoTypeNoLine == [category |-> "style", message |-> "m9"]

\* the objects a provider's answer parses to
ParsedAnswers ==
  { [summary |-> "one error", issues |-> << IssueErrorSecurity >>, score |-> 80],
    [summary |-> "same line twice",
     issues |-> << IssueErrorSecurity, IssueSuggestionSameLine >>, score |-> 95],
    [summary |-> "no line", issues |-> << IssueSuggestionNoLine >>, score |-> 70],
    [summary |-> "clean", issues |-> << >>, score |-> 100],
    [summary |-> "no score", issues |-> << >>],
    [issues |-> << IssueWarningPerformance >>, score |-> 50],
    [summary |-> "no issues field", score |-> 60],
    [summary |-> "issue without type",
     issues |-> << IssueWarningPerformance, IssueNoType >>, score |-> 60],
    [summary |-> "issue without type or line",
     issues |-> << IssueNoTypeNoLine >>, score |-> 65] }

AiOutcomes ==
  { [failed |-> TRUE, message |-> "rate limit exceeded"],
    [failed |-> FALSE, response |-> [json |-> FALSE]] }
  \cup { [failed |-> FALSE, response |-> [json |-> TRUE, parsed |-> p]] :
           p \in ParsedAnswers }

ContentResponses ==
  { [status |-> 200, content |-> "const a = 1;"],
    [status |-> 200, content |-> ""],
    [status |-> 404],
    [status |-> 500, message |-> "Server Error"] }

\* the base content is only passed on to the prompt
BaseContentResponses ==
  { r \in ContentResponses : r.status # 200 \/ r.content # "" }

ReviewStatuses == { "added", "modified", "removed" }

\* the lists filterFiles hands to performReview: 1..MaxReviews files, at
\* most one of them added or removed
ReviewFileLists ==
  UNION { { [i \in 1..n |-> annotate(File(FileNameAt(i), st[i], 10))] :
              st \in { t \in [1..n -> ReviewStatuses] :
                         Cardinality({ i \in 1..n : t[i] # "modified" }) <= 1 } } :
          n \in 1..MaxReviews }

InitReview ==
  /\ pc = "begin"
  /\ config = NoConfig
  /\ changedFiles = <<>>
  /\ filesToReview \in ReviewFileLists
  /\ idx = 1
  /\ aiCalls = <<>>
  /\ notices = 0
  /\ probe = NoProbe
  /\ out = NoOut
  /\ DiffIdle
  /\ EngineIdle
  /\ ReviewIdle

\* lines 27-28: a failure of the listing is caught and gives no comments
GetExistingReviewComments ==
  /\ pc = "begin"
  /\ \E existingComments \in ExistingCommentLists :
       /\ existing' = existingCommentKeys(existingComments)
       /\ githubCalls' = Append(githubCalls,
                                [call |-> "getExistingReviewComments",
                                 returned |-> existingComments])
  /\ pc' = "loop"
  /\ UNCHANGED << config, changedFiles, filesToReview, idx, aiCalls, notices,
                  probeVars, diffVars, reviews, comments, result, inputs,
                  totalIssues, published, outputs >>

\* which step of the review of a file failed, read off the responses
failureOf(file, oldResponse, newResponse, ai) ==
  IF \/ file.status # "added" /\ oldResponse.status \notin { 200, 404 }
     \/ newResponse.status \notin { 200, 404 }
  THEN "fetch"
  ELSE IF /\ file.status # "removed"
          /\ (newResponse.status = 404 \/ newResponse.content = "")
  THEN "nothing"
  ELSE IF ai.failed THEN "provider"
  ELSE IF \/ ~ai.response.json
          \/ "summary" \notin DOMAIN ai.response.parsed
          \/ "issues" \notin DOMAIN ai.response.parsed
  THEN "parse"
  ELSE IF \E k \in 1..Len(ai.response.parsed.issues) :
            /\ "type" \notin DOMAIN ai.response.parsed.issues[k]
            /\ hasPositiveLine(ai.response.parsed.issues[k])
            /\ commentKey(file.filename, ai.response.parsed.issues[k].line)
                 \notin existing
  THEN "comments"
  ELSE "none"

\* lines 31-59: one iteration of the loop
ReviewNextFile ==
  /\ pc = "loop"
  /\ idx <= Len(filesToReview)
  /\ \E oldResponse \in BaseContentResponses, newResponse \in ContentResponses,
        ai \in AiOutcomes :
       LET file == filesToReview[idx]
           review == reviewFile(file, oldResponse, newResponse, ai)
           next == reviewOne([reviews |-> reviews, totalIssues |-> totalIssues,
                              reviewComments |-> comments,
                              existingCommentPaths |-> existing],
                             file, review)
           fetches == IF file.status = "added"
                      THEN << [call |-> "getFileContent", ref |-> "head"] >>
                      ELSE << [call |-> "getFileContent", ref |-> "base"],
                              [call |-> "getFileContent", ref |-> "head"] >>
       IN /\ reviews' = next.reviews
          /\ totalIssues' = next.totalIssues
          /\ comments' = next.reviewComments
          /\ existing' = next.existingCommentPaths
          /\ githubCalls' = githubCalls \o fetches
          /\ aiCalls' = IF "threw" \in DOMAIN review THEN aiCalls
                        ELSE Append(aiCalls, file.filename)
          /\ result' = [op |-> "reviewFile",
                        val |-> [file |-> file,
                                 failure |-> failureOf(file, oldResponse,
                                                       newResponse, ai),
                                 review |-> review]]
  /\ idx' = idx + 1
  /\ UNCHANGED << pc, config, changedFiles, filesToReview, notices, probeVars,
                  diffVars, inputs, published, outputs >>

\* lines 62-66: getPullRequestContext and generateSummary catch their
\* failures; formatReviewComment may throw, and then performReview does
FormatReport ==
  /\ pc = "loop"
  /\ idx > Len(filesToReview)
  /\ \E overallSummary \in SummaryTexts :
       LET reviewBody == formatReviewComment(reviews, overallSummary,
                                             Len(filesToReview), totalIssues)
       IN IF "threw" \in DOMAIN reviewBody
          THEN /\ pc' = "threw"
               /\ result' = [op |-> "performReview", val |-> reviewBody]
          ELSE /\ pc' = "publish"
               /\ result' = [op |-> "formatReviewComment", val |-> reviewBody]
  /\ githubCalls' = Append(githubCalls, [call |-> "pulls.get"])
  /\ UNCHANGED << config, changedFiles, filesToReview, idx, aiCalls, notices,
                  probeVars, diffVars, reviews, existing, comments, inputs,
                  totalIssues, published, outputs >>

\* lines 91-101: what performReview returns
reviewResult ==
  [reviews |-> reviews, issuesFound |-> totalIssues,
   filesReviewed |-> Len(filesToReview)]

\* lines 70-85: the first call that publishes the report; when it throws
\* the catch takes over
PublishReport ==
  /\ pc = "publish"
  /\ LET call == firstPublishCall(comments, totalIssues)
     IN /\ githubCalls' = Append(githubCalls, call)
        /\ \E ok \in BOOLEAN :
             IF ok
             THEN /\ published' = Append(published, call)
                  /\ pc' = "returned"
                  /\ result' = [op |-> "performReview", val |-> reviewResult]
             ELSE /\ pc' = "fallback"
                  /\ UNCHANGED << published, result >>
  /\ UNCHANGED << config, changedFiles, filesToReview, idx, aiCalls, notices,
                  probeVars, diffVars, reviews, existing, comments, inputs,
                  totalIssues, outputs >>

\* lines 86-89: the fallback postComment; its failure leaves performReview
PublishFallback ==
  /\ pc = "fallback"
  /\ githubCalls' = Append(githubCalls, [call |-> "postComment"])
  /\ \E ok \in BOOLEAN :
       IF ok
       THEN /\ published' = Append(published, [call |-> "postComment"])
            /\ pc' = "returned"
            /\ result' = [op |-> "performReview", val |-> reviewResult]
       ELSE /\ pc' = "threw"
            /\ result' = [op |-> "performReview",
                          val |-> Threw("postComment failed")]
            /\ UNCHANGED published
  /\ UNCHANGED << config, changedFiles, filesToReview, idx, aiCalls, notices,
                  probeVars, diffVars, reviews, existing, comments, inputs,
                  totalIssues, outputs >>

NextReview ==
  \/ GetExistingReviewComments
  \/ ReviewNextFile
  \/ FormatReport
  \/ PublishReport
  \/ PublishFallback

SpecReview == InitReview /\ [][NextReview]_vars

(***************************************************************************)
(* Properties.                                                             *)
(***************************************************************************)
\* filterFiles has just returned: no file has been reviewed yet
Filtered == pc \in {"noFiles", "reviewing"} /\ idx = 1 /\ aiCalls = <<>>

\* positions of the changed files that shouldReviewFile accepts
Eligible == { i \in 1..Len(changedFiles) : shouldReviewFile(changedFiles[i], config) }

Selected(name) == \E k \in 1..Len(filesToReview) : filesToReview[k].filename = name

\* position of a file name in the list of changed files
InputPos(name) == CHOOSE i \in 1..Len(changedFiles) : changedFiles[i].filename = name

MatchesExclude(name, patterns) ==
  \E k \in 1..Len(patterns) : minimatch(name, patterns[k])

Min(a, b) == IF a < b THEN a ELSE b

\* C1: when more files are eligible than maxFiles, no eligible file left out
\* of the result of filterFiles has a strictly higher priority than a file
\* of the result.
C1_CapAfterOrdering ==
  (Filtered /\ Cardinality(Eligible) > config.maxFiles) =>
    \A i \in Eligible :
      ~Selected(changedFiles[i].filename) =>
        \A k \in 1..Len(filesToReview) :
          calculateReviewPriority(changedFiles[i]) <= filesToReview[k].reviewPriority

\* C2: the result of filterFiles has at most min(maxFiles, number of
\* accepted files) elements and its reviewPriority values never increase
\* from one element to the next.
C2_LengthAndOrder ==
  Filtered =>
    /\ Len(filesToReview) <= Min(config.maxFiles, Cardinality(Eligible))
    /\ \A k \in 1..(Len(filesToReview) - 1) :
         filesToReview[k].reviewPriority >= filesToReview[k + 1].reviewPriority

C2_Witness ==
  /\ Filtered
  /\ Cardinality(Eligible) > config.maxFiles
  /\ Len(filesToReview) = 2
  /\ filesToReview[1].reviewPriority > filesToReview[2].reviewPriority
  /\ InputPos(filesToReview[1].filename) > InputPos(filesToReview[2].filename)

\* C3: no removed file, no file matching an exclude pattern and no file with
\* more than 1000 changes is in the result of filterFiles; a file with
\* exactly 1000 changes that passes the other rules is in the result when
\* the cap on the number of files cannot cut it off.
C3_ExcludedNeverSelected ==
  Filtered =>
    /\ \A k \in 1..Len(filesToReview) :
         /\ filesToReview[k].status # "removed"
         /\ ~MatchesExclude(filesToReview[k].filename, config.excludePatterns)
         /\ filesToReview[k].changes <= 1000
    /\ Len(changedFiles) <= config.maxFiles =>
         \A i \in 1..Len(changedFiles) :
           ( /\ changedFiles[i].changes = 1000
             /\ changedFiles[i].status # "removed"
             /\ ~isBinaryFile(changedFiles[i].filename)
             /\ ~MatchesExclude(changedFiles[i].filename, config.excludePatterns)
             /\ isCodeFile(changedFiles[i].filename) )
           => Selected(changedFiles[i].filename)

C3_Witness ==
  /\ Filtered
  /\ \E i \in 1..Len(changedFiles) :
       MatchesExclude(changedFiles[i].filename, config.excludePatterns)
  /\ \E i \in 1..Len(changedFiles) :
       changedFiles[i].status = "removed" \/ changedFiles[i].changes > 1000
  /\ \E k \in 1..Len(filesToReview) : filesToReview[k].changes = 1000

\* the suffixes of binaryExtensions that name binary formats
BinaryFormatSuffixes == binaryExtensions \ { ".min.js", ".bundle.js" }

HasSuffixIn(name, suffixes) ==
  LET lower == toLowerCase(name)
  IN \E suf \in suffixes : endsWith(lower, suf)

\* C4: analyzeCode is never called for a file that matches an exclude
\* pattern, is a binary file, or has more than 1000 changed lines.
C4_NeverSentToAI ==
  \A k \in 1..Len(aiCalls) :
    LET f == changedFiles[InputPos(aiCalls[k])]
    IN /\ ~MatchesExclude(f.filename, config.excludePatterns)
       /\ ~HasSuffixIn(f.filename, BinaryFormatSuffixes)
       /\ f.changes <= 1000

C4_Witness ==
  /\ pc = "done"
  /\ Len(aiCalls) > 0
  /\ \E i \in 1..Len(changedFiles) : changedFiles[i].changes > 1000
  /\ \E i \in 1..Len(changedFiles) :
       \/ MatchesExclude(changedFiles[i].filename, config.excludePatterns)
       \/ HasSuffixIn(changedFiles[i].filename, BinaryFormatSuffixes)

\* C5: shouldReviewFile rejects every file whose name ends, in any letter
\* case, with a suffix of the binary set, '.min.js' and '.bundle.js'
\* included, whatever the exclude patterns are.
C5_BinarySuffixRejected ==
  (out.op = "shouldReviewFile" /\ HasSuffixIn(probe, binaryExtensions)) =>
    out.val = FALSE

\* C6: a file that is not removed, not binary, not excluded and has at most
\* 1000 changes is accepted by shouldReviewFile exactly when its lower-cased
\* extension is a key of the language table or its lower-cased basename
\* contains a project-file name; random.txt is rejected, requirements.txt,
\* package.json and Dockerfile are accepted.
C6_CodeFileRule ==
  ( /\ out.op = "shouldReviewFile"
    /\ out.file.status # "removed"
    /\ ~isBinaryFile(probe)
    /\ ~MatchesExclude(probe, out.cfg.excludePatterns)
    /\ out.file.changes <= 1000 )
  => /\ out.val <=>
          \/ toLowerCase(extname(probe)) \in DOMAIN languageMap
          \/ \E special \in specialFiles :
               includes(toLowerCase(basename(probe)), special)
     /\ probe = "random.txt" => out.val = FALSE
     /\ probe \in {"requirements.txt", "package.json", "Dockerfile"} =>
          out.val = TRUE

C6_Witness ==
  /\ out.op = "shouldReviewFile"
  /\ probe = "requirements.txt"
  /\ out.file.status = "modified"
  /\ out.file.changes = 1000
  /\ out.cfg.excludePatterns = <<>>
  /\ out.val = TRUE

\* C7: the priority is the sum of the four path bonuses (each added at most
\* once), the bonus of the detected language and the size bonus;
\* src/auth/login.js with 40 changes has priority 60.
C7_PriorityFormula ==
  out.op = "calculateReviewPriority" =>
    LET path == toLowerCase(probe)
        language == detectLanguage(probe)
        HasAny(words) == \E w \in words : includes(path, w)
        languageBonus ==
          IF language \in {"javascript", "typescript"} THEN 15
          ELSE IF language \in {"python", "java", "csharp"} THEN 12
          ELSE IF language \in {"go", "rust"} THEN 10
          ELSE IF language \in {"php", "ruby"} THEN 8
          ELSE 5
        sizeBonus ==
          IF out.file.changes > 100 THEN 10
          ELSE IF out.file.changes > 50 THEN 5 ELSE 0
    IN /\ out.val = (IF HasAny({"src/", "lib/"}) THEN 20 ELSE 0)
                  + (IF HasAny({"test", "spec"}) THEN 15 ELSE 0)
                  + (IF HasAny({"config", "package.json"}) THEN 10 ELSE 0)
                  + (IF HasAny({"auth", "security", "login"}) THEN 25 ELSE 0)
                  + languageBonus + sizeBonus
       /\ (probe = "src/auth/login.js" /\ out.file.changes = 40) => out.val = 60

C7_Witness ==
  /\ out.op = "calculateReviewPriority"
  /\ probe = "src/auth/login.js"
  /\ out.file.changes = 40
  /\ out.val = 60

\* C8: two files of the result of filterFiles that have the same priority
\* are in the order they have in the input list.
C8_StableOrder ==
  Filtered =>
    \A j, k \in 1..Len(filesToReview) :
      (j < k /\ filesToReview[j].reviewPriority = filesToReview[k].reviewPriority)
      => InputPos(filesToReview[j].filename) < InputPos(filesToReview[k].filename)

C8_Witness ==
  /\ Filtered
  /\ Len(filesToReview) >= 2
  /\ filesToReview[1].filename = "docs.md"
  /\ filesToReview[2].filename = "a.js"
  /\ filesToReview[1].reviewPriority = filesToReview[2].reviewPriority

\* C9: detectLanguage returns the table entry of the lower-cased extension
\* when the table has it, 'text' for an unknown or missing extension, and
\* 'dockerfile' / 'makefile' for the names Dockerfile / Makefile in any
\* letter case; it returns a language for every name.
C9_DetectLanguageTotal ==
  out.op = "detectLanguage" =>
    LET ext == toLowerCase(extname(probe))
        name == toLowerCase(probe)
        Languages == { languageMap[e] : e \in DOMAIN languageMap }
    IN /\ out.val \in Languages \cup {"text", "dockerfile", "makefile"}
       /\ ext \in DOMAIN languageMap => out.val = languageMap[ext]
       /\ (ext \notin DOMAIN languageMap /\ name \notin {"dockerfile", "makefile"})
            => out.val = "text"
       /\ name = "dockerfile" => out.val = "dockerfile"
       /\ name = "makefile" => out.val = "makefile"

C9_Witness ==
  /\ out.op = "detectLanguage"
  /\ probe = "tests/app.JS"
  /\ out.val = "javascript"

\* C10: detectLanguage applies the dockerfile / makefile special cases to
\* the basename: a path whose basename is Dockerfile or Makefile, in any
\* letter case and under any directory, is 'dockerfile' or 'makefile'.
C10_SpecialCasesOnBasename ==
  out.op = "detectLanguage" =>
    /\ toLowerCase(basename(probe)) = "dockerfile" => out.val = "dockerfile"
    /\ toLowerCase(basename(probe)) = "makefile" => out.val = "makefile"


(***************************************************************************)
(* parseDiff.  The expectations below are written per line of the patch,   *)
(* by position, and not as a scan.                                         *)
(***************************************************************************)
Parsed == diff # NoDiff /\ patch.kind = "string"

PatchLines == splitLines(patch.text)

IsHunkHeader(l) == startsWith(l, "@@") /\ hunkMatch(l)[1]
NewStart(l) == parseInt(hunkMatch(l)[2])
IsAddedLine(l) == startsWith(l, "+") /\ ~startsWith(l, "+++")
IsRemovedLine(l) == startsWith(l, "-") /\ ~startsWith(l, "---")
IsContextLine(l) == startsWith(l, " ")

\* the value of the cursor when line i of L is reached: the newStart of the
\* last matching header before it (0 when there is none) plus the number of
\* added and context lines between that header and line i
CursorBefore(L, i) ==
  LET hs   == { j \in 1..(i - 1) : IsHunkHeader(L[j]) }
      h    == IF hs = {} THEN 0 ELSE CHOOSE j \in hs : \A k \in hs : k <= j
      base == IF h = 0 THEN 0 ELSE NewStart(L[h])
  IN base + Cardinality({ j \in (h + 1)..(i - 1) :
                            IsAddedLine(L[j]) \/ IsContextLine(L[j]) })

\* the positions of L, in order, whose line satisfies Test
PositionsOf(L, Test(_)) == SelectSeq([i \in 1..Len(L) |-> i], LAMBDA i : Test(L[i]))

NumberedRecords(L, Test(_)) ==
  LET ps == PositionsOf(L, Test)
  IN [k \in 1..Len(ps) |-> [line |-> CursorBefore(L, ps[k]),
                            content |-> SubSeq(L[ps[k]], 2, Len(L[ps[k]]))]]

UnnumberedRecords(L, Test(_)) ==
  LET ps == PositionsOf(L, Test)
  IN [k \in 1..Len(ps) |-> [content |-> SubSeq(L[ps[k]], 2, Len(L[ps[k]]))]]

NonDecreasing(recs) == \A i, j \in 1..Len(recs) : i < j => recs[i].line <= recs[j].line

\* C11: parseDiff scans the patch with one cursor: a matching hunk header
\* sets it to its newStart, an added or a context line records the cursor
\* with the rest of the line and advances it, a removed line records the
\* rest of the line without a number and leaves the cursor, and every other
\* line records nothing and leaves the cursor.
C11_OneCursorScan ==
  Parsed =>
    diff = [added   |-> NumberedRecords(PatchLines, IsAddedLine),
            removed |-> UnnumberedRecords(PatchLines, IsRemovedLine),
            context |-> NumberedRecords(PatchLines, IsContextLine)]

C11_Witness ==
  /\ Parsed
  /\ patch.text = joinLines(<< "@@ -7 +12 @@ fn", "+a", "-b", " c" >>)
  /\ diff.added = << [line |-> 12, content |-> "a"] >>
  /\ diff.removed = << [content |-> "b"] >>
  /\ diff.context = << [line |-> 13, content |-> "c"] >>

\* C12 as stated: for the header '@@ -1,3 +1,4 @@' followed by a context, an
\* added, a removed and a context line, the added and context records get
\* consecutive line numbers starting at 4 and the removed record has no line
\* number.
C12_StartsAtFour ==
  (Parsed /\ patch.text = OneHunkPatch) =>
    /\ diff.context = << [line |-> 4, content |-> "c1"], [line |-> 6, content |-> "c2"] >>
    /\ diff.added = << [line |-> 5, content |-> "a1"] >>
    /\ diff.removed = << [content |-> "r1"] >>

\* C12 amended: for that patch the added and context records get the
\* consecutive line numbers 1, 2, 3 (the new-file start of '+1,4' is 1, 4 is
\* the length of the hunk) and the removed record has no line number.
C12_StartsAtNewStart ==
  (Parsed /\ patch.text = OneHunkPatch) =>
    /\ diff.context = << [line |-> 1, content |-> "c1"], [line |-> 3, content |-> "c2"] >>
    /\ diff.added = << [line |-> 2, content |-> "a1"] >>
    /\ diff.removed = << [content |-> "r1"] >>
    /\ DOMAIN diff.removed[1] = { "content" }

C12_Witness ==
  /\ Parsed
  /\ patch.text = OneHunkPatch
  /\ Len(diff.added) = 1 /\ Len(diff.removed) = 1 /\ Len(diff.context) = 2

\* C13 as stated: for every patch string the line numbers of added are
\* non-decreasing in sequence order, and so are those of context.
C13_AlwaysNonDecreasing ==
  Parsed => NonDecreasing(diff.added) /\ NonDecreasing(diff.context)

\* every matching header of L starts at or after the cursor reached before it
HunksAscend(L) ==
  \A i \in 1..Len(L) : IsHunkHeader(L[i]) => NewStart(L[i]) >= CursorBefore(L, i)

\* C13 amended: when every matching hunk header of the patch has a newStart
\* that is not below the cursor value reached before it, the line numbers of
\* added are non-decreasing in sequence order, and so are those of context.
C13_NonDecreasingWhenHunksAscend ==
  (Parsed /\ HunksAscend(PatchLines)) =>
    NonDecreasing(diff.added) /\ NonDecreasing(diff.context)

C13_Witness ==
  /\ Parsed
  /\ patch.text = joinLines(<< "@@ -1,3 +1,4 @@", "+a", "@@ -7 +12 @@ fn", "+a" >>)
  /\ HunksAscend(PatchLines)
  /\ diff.added = << [line |-> 1, content |-> "a"], [line |-> 12, content |-> "a"] >>

\* C14: parseDiff always returns a result: three empty sequences for an
\* empty, null or undefined patch, and for any other string one record per
\* added, removed or context line and none for any other line.
C14_NeverThrows ==
  diff # NoDiff =>
    /\ DOMAIN diff = { "added", "removed", "context" }
    /\ (patch.kind # "string" \/ patch.text = "") => diff = EmptyDiff
    /\ patch.kind = "string" =>
         /\ Len(diff.added) = Len(PositionsOf(PatchLines, IsAddedLine))
         /\ Len(diff.removed) = Len(PositionsOf(PatchLines, IsRemovedLine))
         /\ Len(diff.context) = Len(PositionsOf(PatchLines, IsContextLine))

C14_Witness ==
  /\ diff # NoDiff
  /\ patch.kind = "undefined"
  /\ diff = EmptyDiff


(***************************************************************************)
(* ReviewEngine: statistics, recommendation, risk and inline comments.     *)
(***************************************************************************)
StatsCalled == result.op = "calculateReviewStats"
ReportFormatted == result.op = "formatReviewComment"
CommentsCreated == result.op = "createReviewComments"

Scores == [i \in 1..Len(reviews) |-> reviews[i].score]

RECURSIVE SumOf(_)
SumOf(q) == IF q = << >> THEN 0 ELSE Head(q) + SumOf(Tail(q))

\* r is the mean of the scores rounded to the nearest integer, halves up:
\* r - 1/2 <= mean < r + 1/2
IsRoundedMean(r, q) ==
  /\ 2 * Len(q) * r - Len(q) <= 2 * SumOf(q)
  /\ 2 * SumOf(q) < 2 * Len(q) * r + Len(q)

\* the line of the executive summary that carries score, risk and
\* recommendation
Headline == result.val.body[4]

\* C15: averageScore is the mean of the scores rounded to the nearest
\* integer with halves rounded up, and 0 for no findings; the scores
\* [95, 40] give 68, printed with recommendation Request Changes and risk
\* Medium.
C15_RoundedMean ==
  /\ StatsCalled =>
       /\ reviews = << >> => result.val.averageScore = 0
       /\ reviews # << >> => IsRoundedMean(result.val.averageScore, Scores)
       /\ Scores = << 95, 40 >> => result.val.averageScore = 68
  /\ (ReportFormatted /\ Scores = << 95, 40 >>) =>
       Headline = "**Score:** 68/100 | **Risk:** Medium | **Recommendation:** Request Changes"

C15_Witness ==
  /\ StatsCalled
  /\ Scores = << 95, 40 >>
  /\ result.val.averageScore = 68

\* the pairs <<finding, issue>> of the positions of all issues
IssuePositions ==
  UNION { { <<i, j>> : j \in 1..Len(reviews[i].issues) } : i \in 1..Len(reviews) }

IssueAt(pos) == reviews[pos[1]].issues[pos[2]]

CountType(t) == Cardinality({ pos \in IssuePositions : IssueAt(pos).type = t })
CountCategory(c) == Cardinality({ pos \in IssuePositions : IssueAt(pos).category = c })

\* reviews without the findings that have no issues
WithIssuesOnly == SelectSeq(reviews, LAMBDA r : r.issues # << >>)

\* C16: each issue is counted once in the tally of its type and,
\* independently, once in securityIssues or performanceIssues when its
\* category is 'security' or 'performance'; when every type is one of
\* error, warning, suggestion the three type tallies add up to the number
\* of issues; a finding without issues changes no tally.
C16_Tallies ==
  StatsCalled =>
    /\ result.val.errorCount = CountType("error")
    /\ result.val.warningCount = CountType("warning")
    /\ result.val.suggestionCount = CountType("suggestion")
    /\ result.val.securityIssues = CountCategory("security")
    /\ result.val.performanceIssues = CountCategory("performance")
    /\ (\A pos \in IssuePositions : IssueAt(pos).type \in {"error", "warning", "suggestion"})
         => result.val.errorCount + result.val.warningCount + result.val.suggestionCount
              = Cardinality(IssuePositions)
    /\ \A f \in DOMAIN NoTally :
         result.val[f] = calculateReviewStats(WithIssuesOnly)[f]

C16_Witness ==
  /\ StatsCalled
  /\ Len(reviews) = 2
  /\ reviews[1].issues = << IssueErrorSecurity, IssueSuggestionSameLine >>
  /\ reviews[2].issues = << >>
  /\ result.val.errorCount = 1 /\ result.val.suggestionCount = 1
  /\ result.val.securityIssues = 1 /\ result.val.performanceIssues = 1

\* the score a report was formatted for
AverageOf(q) == CHOOSE r \in 0..100 : IsRoundedMean(r, q)

RecommendationBands ==
  { [label |-> "Approve", from |-> 90, to |-> 100],
    [label |-> "Approve with Comments", from |-> 75, to |-> 89],
    [label |-> "Request Changes", from |-> 60, to |-> 74],
    [label |-> "Reject", from |-> 0, to |-> 59] }

PrintsRecommendation(line, label) == endsWith(line, " | **Recommendation:** " \o label)
PrintsRisk(line, label) == includes(line, " | **Risk:** " \o label \o " | ")

\* C17: every integer score 0..100 is in exactly one recommendation band,
\* and the report prints the label of the band of the average score:
\* Approve from 90, Approve with Comments from 75, Request Changes from 60,
\* Reject below 60.
C17_RecommendationBands ==
  /\ \A sc \in 0..100 :
       Cardinality({ b \in RecommendationBands : b.from <= sc /\ sc <= b.to }) = 1
  /\ (ReportFormatted /\ reviews # << >>) =>
       \A b \in RecommendationBands :
         PrintsRecommendation(Headline, b.label)
           <=> (b.from <= AverageOf(Scores) /\ AverageOf(Scores) <= b.to)

C17_Witness ==
  /\ ReportFormatted
  /\ Scores = << 90 >>
  /\ PrintsRecommendation(Headline, "Approve")

Reviewed == reviews[result.arg]

\* the issue has a line that is a positive integer and no comment exists
\* yet for its file and line
Commentable(issue) ==
  /\ "line" \in DOMAIN issue
  /\ issue.line \in Nat \ {0}
  /\ (Reviewed.filename \o ":" \o ToString(issue.line)) \notin existing

\* C19: createReviewComments emits one comment {path, line, body} for each
\* issue that has a positive line and whose key filename:line is not in the
\* set of existing keys, and none for any other issue.
C19_OneCommentPerNewLine ==
  CommentsCreated =>
    /\ Len(result.val) =
         Cardinality({ j \in 1..Len(Reviewed.issues) : Commentable(Reviewed.issues[j]) })
    /\ \A k \in 1..Len(result.val) :
         /\ DOMAIN result.val[k] = { "path", "line", "body" }
         /\ result.val[k].path = Reviewed.filename
         /\ \E j \in 1..Len(Reviewed.issues) :
              /\ Commentable(Reviewed.issues[j])
              /\ result.val[k].line = Reviewed.issues[j].line
              /\ result.val[k].body = formatIssueComment(Reviewed.issues[j])
    /\ \A j \in 1..Len(Reviewed.issues) :
         Commentable(Reviewed.issues[j]) =>
           \E k \in 1..Len(result.val) :
             result.val[k].body = formatIssueComment(Reviewed.issues[j])

C19_Witness ==
  /\ CommentsCreated
  /\ Reviewed.issues = << IssueInfo, IssueErrorSecurity, IssueWarningPerformance >>
  /\ existing = { "f1.js:1" }
  /\ Reviewed.filename = "f1.js"
  /\ Len(result.val) = 2
  /\ result.val[1].line = 3 /\ result.val[2].line = 2

\* C20: when the comments of a first pass are added, as path:line keys, to
\* the set of existing keys, a second pass over the same findings produces
\* no inline comment.
C20_SecondPassSilent ==
  pc = "rerun" => comments = << >>

C20_Witness ==
  /\ pc = "rerun"
  /\ Len(result.val) >= 2
  /\ \A k \in 1..Len(result.val) :
       (result.val[k].path \o ":" \o ToString(result.val[k].line)) \in existing
  /\ comments = << >>


(***************************************************************************)
(* ReviewEngine: the report body.                                          *)
(***************************************************************************)
Body == result.val.body

\* the positions of the lines of b that are equal to heading
HeadingAt(b, heading) == { i \in 1..Len(b) : b[i] = heading }

\* the position of a heading that occurs once
PosOf(b, heading) == CHOOSE i \in HeadingAt(b, heading) : TRUE

IsSectionHeading(l) == startsWith(l, "## ")

\* the lines of the section that starts at position h: those after h and
\* before the next section heading
SectionOf(b, h) ==
  LET later == { i \in (h + 1)..Len(b) : IsSectionHeading(b[i]) }
      stop  == IF later = {} THEN Len(b) + 1
               ELSE CHOOSE i \in later : \A j \in later : i <= j
  IN SubSeq(b, h + 1, stop - 1)

\* every issue of every finding with the name of its file, in finding order
\* and issue order
RECURSIVE IssuesInOrder(_)
IssuesInOrder(rs) ==
  IF rs = << >> THEN << >>
  ELSE [k \in 1..Len(Head(rs).issues) |->
          [filename |-> Head(rs).filename, issue |-> Head(rs).issues[k]]]
       \o IssuesInOrder(Tail(rs))

LineOr(issue, fallback) ==
  IF "line" \in DOMAIN issue /\ issue.line # 0 THEN ToString(issue.line) ELSE fallback

ExpectedCritical ==
  LET errs == SelectSeq(IssuesInOrder(reviews), LAMBDA e : e.issue.type = "error")
  IN [k \in 1..Len(errs) |->
        "- **" \o errs[k].filename \o ":" \o LineOr(errs[k].issue, "") \o "** "
          \o errs[k].issue.message]

ExpectedDetailed ==
  LET all == IssuesInOrder(reviews)
  IN [k \in 1..Len(all) |->
        "- [" \o toUpperCase(all[k].issue.type) \o "] Line "
          \o LineOr(all[k].issue, "N/A") \o ": " \o all[k].issue.message]

\* C22: the body has the sections Executive Summary (score, risk and
\* recommendation on its first line), Critical Issues and Detailed Findings
\* once each and in that order, Detailed Findings being the last section;
\* the entries of Critical Issues are the issues of type error, one each and
\* no other; the entries of Detailed Findings are all issues of all
\* findings, in finding order and issue order, with type, line or N/A, and
\* message.
C22_SectionsAndEntries ==
  ReportFormatted =>
    /\ \A h \in {"## Executive Summary", "## Critical Issues", "## Detailed Findings"} :
         Cardinality(HeadingAt(Body, h)) = 1
    /\ PosOf(Body, "## Executive Summary") < PosOf(Body, "## Critical Issues")
    /\ PosOf(Body, "## Critical Issues") < PosOf(Body, "## Detailed Findings")
    /\ \A i \in 1..Len(Body) :
         IsSectionHeading(Body[i]) =>
           /\ PosOf(Body, "## Executive Summary") <= i
           /\ i <= PosOf(Body, "## Detailed Findings")
    /\ LET first == SectionOf(Body, PosOf(Body, "## Executive Summary"))[1]
       IN /\ startsWith(first, "**Score:** ")
          /\ includes(first, " | **Risk:** ")
          /\ includes(first, " | **Recommendation:** ")
    /\ SelectSeq(SectionOf(Body, PosOf(Body, "## Critical Issues")),
                 LAMBDA l : startsWith(l, "- **"))
         = ExpectedCritical
    /\ SelectSeq(SectionOf(Body, PosOf(Body, "## Detailed Findings")),
                 LAMBDA l : startsWith(l, "- ["))
         = ExpectedDetailed

C22_Witness ==
  /\ ReportFormatted
  /\ Len(reviews) = 2
  /\ reviews[1].issues = << IssueWarningPerformance, IssueSuggestionNoLine >>
  /\ reviews[2].issues = << IssueInfo, IssueErrorSecurity, IssueWarningPerformance >>
  /\ SectionOf(Body, PosOf(Body, "## Critical Issues")) = << "- **f2.js:1** m1", "" >>
  /\ SectionOf(Body, PosOf(Body, "## Detailed Findings"))
       = << "### f1.js", "- [WARNING] Line 2: m2", "- [SUGGESTION] Line N/A: m3", "",
            "### f2.js", "- [INFO] Line 3: m7", "- [ERROR] Line 1: m1",
            "- [WARNING] Line 2: m2", "" >>


(***************************************************************************)
(* Findings that lack a field.                                             *)
(***************************************************************************)
ScoreOrZero(r) == IF "score" \in DOMAIN r THEN r.score ELSE 0
IssuesOrNone(r) == IF "issues" \in DOMAIN r THEN r.issues ELSE << >>

\* the findings with the defaults filled in
Defaulted == [i \in 1..Len(reviews) |->
                [filename |-> reviews[i].filename, score |-> ScoreOrZero(reviews[i]),
                 issues |-> IssuesOrNone(reviews[i])]]

Partial == missingScore(reviews) \/ missingIssues(reviews)

\* C21: calculateReviewStats and formatReviewComment return for findings
\* that lack a field, and what they return is what they return for the same
\* findings with score 0 in place of a missing score and an empty list in
\* place of a missing issue list.
C21_PartialFindingsDefaulted ==
  /\ (StatsCalled /\ Partial) =>
       /\ "threw" \notin DOMAIN result.val
       /\ result.val = calculateReviewStats(Defaulted)
  /\ (ReportFormatted /\ Partial) =>
       /\ "threw" \notin DOMAIN result.val
       /\ result.val = formatReviewComment(Defaulted, CHOOSE t \in SummaryTexts : TRUE,
                                           Len(Defaulted), totalIssuesOf(Defaulted))


\* ConfigValidator.validate
Validated == result.op = "validate"
Returned == Validated /\ "threw" \notin DOMAIN result.val
ThrewMessage(message) == Validated /\ result.val = Threw(message)
\* the inputs validate gets as far as checking: the token is there and the
\* three flags are boolean texts
Readable ==
  /\ inputs.githubToken # ""
  /\ inputs.enableSecurityReview \in BooleanTexts
  /\ inputs.enablePerformanceReview \in BooleanTexts
  /\ inputs.enableBestPractices \in BooleanTexts
Provider == IF inputs.aiProvider = "" THEN "openai" ELSE inputs.aiProvider
KeyOf(provider) ==
  CASE provider = "openai" -> inputs.openaiApiKey
    [] provider = "anthropic" -> inputs.anthropicApiKey
    [] provider = "openrouter" -> inputs.openrouterApiKey
KeyMessages ==
  [openai |-> "OpenAI API key is required when using OpenAI provider",
   anthropic |-> "Anthropic API key is required when using Anthropic provider",
   openrouter |-> "OpenRouter API key is required when using OpenRouter provider"]

\* C23: validate throws when the key of the selected provider is missing,
\* with the message of that provider, and throws 'AI provider must be one
\* of ...' when the provider is none of the three; a config is returned
\* only for one of the three providers with its key non-empty
C23_ProviderAndKey ==
  Validated =>
    /\ \A p \in ProviderNames :
         (Provider = p /\ KeyOf(p) = "") =>
           /\ ~Returned
           /\ Readable => ThrewMessage(KeyMessages[p])
    /\ Provider \notin ProviderNames =>
         /\ ~Returned
         /\ Readable =>
              ThrewMessage("AI provider must be one of: \"openai\", \"anthropic\", \"openrouter\"")
    /\ Returned =>
         /\ result.val.aiProvider \in ProviderNames
         /\ result.val.aiProvider = Provider
         /\ KeyOf(Provider) # ""

C23_Witness ==
  /\ ThrewMessage(KeyMessages["anthropic"])
  /\ inputs.aiProvider = "anthropic"
  /\ inputs.openaiApiKey # ""

\* the integer a max-files text denotes, 0 when it denotes none
DenotedInteger(text) ==
  IF text = "" THEN 20
  ELSE IF Len(text) > 0 /\ digitsEnd(text, 1) = Len(text) + 1 THEN parseInt(text)
  ELSE 0

\* C24: a returned config has maxFiles an integer in 1..100, and a
\* max-files input that denotes no integer in that range makes validate throw
C24_MaxFilesInRange ==
  Validated =>
    /\ Returned =>
         ~result.val.maxFiles.nan /\ result.val.maxFiles.value \in 1..100
    /\ DenotedInteger(inputs.maxFiles) \notin 1..100 => ~Returned


\* performReview step by step
FileReviewed == result.op = "reviewFile"
ReviewedFile == result.val.file
LastReview == reviews[Len(reviews)]
LoopIsOver == pc \in { "publish", "fallback", "returned", "threw" }
EntriesFor(name) == { k \in 1..Len(reviews) : reviews[k].filename = name }
CommentsFor(name) == { k \in 1..Len(comments) : comments[k].path = name }
FailureSummary(kind, name) ==
  CASE kind = "fetch" -> "Review failed: Server Error"
    [] kind = "nothing" -> "Review failed: Unable to fetch file content"
    [] kind = "provider" -> "Analysis failed for " \o name \o ": rate limit exceeded"
    [] kind = "parse" -> "Analysis completed but response format was invalid"

\* C25: when the content fetch fails or returns nothing, the provider call
\* fails or the answer does not parse, the loop goes on: the file gets one
\* finding with score 0, no issues and a summary that names the failure, no
\* inline comment is made for it, and once the loop is over every file of
\* the list has a finding
C25_FailureDegrades ==
  /\ (FileReviewed /\ result.val.failure \in { "fetch", "nothing", "provider", "parse" }) =>
       /\ pc = "loop"
       /\ Cardinality(EntriesFor(ReviewedFile.filename)) = 1
       /\ LastReview.filename = ReviewedFile.filename
       /\ LastReview.score = 0
       /\ LastReview.issues = << >>
       /\ LastReview.summary =
            FailureSummary(result.val.failure, ReviewedFile.filename)
       /\ CommentsFor(ReviewedFile.filename) = {}
  /\ LoopIsOver =>
       /\ idx = Len(filesToReview) + 1
       /\ \A i \in 1..Len(filesToReview) :
            EntriesFor(filesToReview[i].filename) # {}

C25_Witness ==
  /\ pc = "returned"
  /\ Len(reviews) = 2
  /\ reviews[1].summary = "Review failed: Unable to fetch file content"
  /\ reviews[2].score = 80
  /\ Len(comments) = 1

\* C26: when performReview returns, reviews has one entry per file, in the
\* order of the files, and totalIssues is the number of issues of those
\* entries
C26_OneEntryPerFile ==
  pc = "returned" =>
    /\ Len(reviews) = Len(filesToReview)
    /\ \A i \in 1..Len(filesToReview) :
         reviews[i].filename = filesToReview[i].filename
    /\ totalIssues = Cardinality(IssuePositions)
    /\ result.val.reviews = reviews
    /\ result.val.issuesFound = totalIssues

C26_Witness ==
  /\ pc = "returned"
  /\ Len(filesToReview) = 2
  /\ reviews[1].summary = "Review failed: Server Error"
  /\ Len(reviews[2].issues) = 2
  /\ totalIssues = 2

PublishCalls ==
  SelectSeq(githubCalls, LAMBDA c : c.call \in { "submitReview", "postComment" })

\* C27: the report is published by one successful call, submitReview when
\* there are inline comments and postComment otherwise; a failed first call
\* is followed by exactly one postComment, and when that fails too
\* performReview throws; nothing is published twice
C27_PublishedOnce ==
  /\ Len(published) <= 1
  /\ Len(PublishCalls) <= 2
  /\ pc = "returned" =>
       /\ Len(published) = 1
       /\ published[1] = PublishCalls[Len(PublishCalls)]
       /\ "threw" \notin DOMAIN result.val
  /\ Len(PublishCalls) >= 1 =>
       PublishCalls[1].call =
         IF Len(comments) > 0 THEN "submitReview" ELSE "postComment"
  /\ pc = "fallback" => Len(PublishCalls) = 1 /\ published = << >>
  /\ Len(PublishCalls) = 2 =>
       /\ PublishCalls[2] = [call |-> "postComment"]
       /\ published \in { << >>, << PublishCalls[2] >> }
       /\ published = << >> =>
            pc = "threw" /\ result.op = "performReview" /\ "threw" \in DOMAIN result.val

C27_Witness ==
  /\ pc = "returned"
  /\ Len(PublishCalls) = 2
  /\ PublishCalls[1].call = "submitReview"
  /\ published = << [call |-> "postComment"] >>

\* C28: every call of submitReview carries the event REQUEST_CHANGES: it is
\* made only with inline comments, hence with totalIssues > 0, whatever the
\* scores are
C28_AlwaysRequestChanges ==
  \A k \in 1..Len(githubCalls) :
    githubCalls[k].call = "submitReview" =>
      /\ githubCalls[k].event = "REQUEST_CHANGES"
      /\ Len(comments) > 0
      /\ totalIssues > 0

C28_Witness ==
  /\ pc = "returned"
  /\ published = << [call |-> "submitReview", event |-> "REQUEST_CHANGES"] >>
  /\ \A i \in 1..Len(reviews) : reviews[i].score >= 90

KeysBeforeRun ==
  { c.path \o ":" \o ToString(c.line) :
      c \in { githubCalls[1].returned[k] : k \in 1..Len(githubCalls[1].returned) } }

\* C29: the set of existing keys stays what it was when the run started and
\* the review handed to createReviewComments is the one recorded; every
\* issue with a positive line whose key was not there before the run gets
\* its comment, two issues on the same line included
C29_SetAndReviewUnchanged ==
  /\ pc # "begin" => existing = KeysBeforeRun
  /\ (FileReviewed /\ result.val.failure = "none") =>
       /\ LastReview = result.val.review
       /\ Cardinality(CommentsFor(ReviewedFile.filename)) =
            Cardinality({ k \in 1..Len(LastReview.issues) :
                            /\ "line" \in DOMAIN LastReview.issues[k]
                            /\ LastReview.issues[k].line > 0
                            /\ (ReviewedFile.filename \o ":"
                                  \o ToString(LastReview.issues[k].line))
                                 \notin KeysBeforeRun })

C29_Witness ==
  /\ FileReviewed
  /\ result.val.failure = "none"
  /\ \E a, b \in CommentsFor(ReviewedFile.filename) :
       a < b /\ comments[a].line = comments[b].line


\* run(): the review starts only with files to review
ReviewOnlyWithFiles ==
  (pc = "reviewing" \/ aiCalls # << >> \/ outputs # {}) => Len(filesToReview) > 0

\* run(): nothing has been called when the event is skipped
SkippedUntouched ==
  pc = "skipped" =>
    changedFiles = << >> /\ notices = 0 /\ aiCalls = << >> /\ outputs = {}

\* run(): the skip is the first and only step of the run
SkipIsFirstStep ==
  pc' = "skipped" =>
    /\ pc = "start"
    /\ UNCHANGED << config, changedFiles, filesToReview, idx, aiCalls, notices,
                    outputs >>

\* C30 as stated: performReview, and with it every AI call, runs only with
\* a non-empty list; with no file to review run posts one notice, calls
\* no AI, sets no outputs and does not fail; an event that is not a pull
\* request makes no call at all
C30_NoFilesNeverFails ==
  /\ [](ReviewOnlyWithFiles /\ SkippedUntouched)
  /\ [][SkipIsFirstStep]_vars
  /\ [][pc = "noFiles" =>
          /\ pc' = "done"
          /\ notices' = 1
          /\ aiCalls' = << >>
          /\ outputs' = {}]_vars

\* C30 amended: as above, except that with no file to review the run
\* either posts its one notice and ends, or fails because posting the
\* notice threw, and then no notice is posted
C30_NoFilesNoticeOrFailure ==
  /\ [](ReviewOnlyWithFiles /\ SkippedUntouched)
  /\ [][SkipIsFirstStep]_vars
  /\ [][pc = "noFiles" =>
          /\ aiCalls' = << >>
          /\ outputs' = {}
          /\ \/ pc' = "done" /\ notices' = 1
             \/ pc' = "failed" /\ notices' = 0]_vars

C30_Witness ==
  /\ pc = "done"
  /\ changedFiles # << >>
  /\ filesToReview = << >>
  /\ notices = 1
  /\ outputs = {}

====
